---- MODULE Spec2Model ----
(***************************************************************************)
(* MIDI monitor controller: the virtual knob, the absolute-encoder delta   *)
(* tracker, the control mapper and the DDC/CI display driver.              *)
(*                                                                         *)
(* Specifications:                                                         *)
(*   SpecKnob  one VirtualKnob object driven by adjust/set calls           *)
(*   SpecStep  ControlMapper._get_night_mode_step applied to inputs        *)
(*   SpecEnc   MIDIHandler.calculate_absolute_delta over all of 0..127     *)
(*   SpecLoop  sequences of samples of one control id, with the sum of     *)
(*             the deltas they produced                                    *)
(*   SpecDrv   the MonitorController operations called one at a time       *)
(*   Spec      the session: startup, initialize(), the event loop          *)
(***************************************************************************)
EXTENDS Integers, Sequences, FiniteSets, TLC

VARIABLES
    knob,                       \* SpecKnob: the VirtualKnob under test
    call,                       \* the last call made by a harness and what it returned
    knob_sensitivity,           \* MIDIHandler.knob_sensitivity, in halves
    knob_previous_values,       \* MIDIHandler.knob_previous_values (a dict)
    loop,                       \* SpecLoop: first sample, sum of deltas, length
    monitor_index,              \* MonitorController.monitor_index
    monitor,                    \* MonitorController.monitor: << >> is None, <<i>> display i
    vcp,                        \* the display's VCP registers, by feature
    trace,                      \* what the driver did during the last operation
    always_start_calibrated,    \* Config.always_start_calibrated
    brightness,                 \* ControlMapper.brightness (a VirtualKnob)
    night_mode,                 \* ControlMapper.night_mode (a VirtualKnob)
    local_dimming_enabled,      \* ControlMapper.local_dimming_enabled
    hdr_enabled,                \* ControlMapper.hdr_enabled
    current_night_mode_step,    \* ControlMapper.current_night_mode_step
    pc,                         \* where main() is
    event,                      \* the last message handled and what handling it did
    nevents,                    \* messages received so far
    track,                      \* the night-mode writes since the knob stood at 80
    inport,                     \* MIDIHandler.inport: "none", "open" or "closed"
    tray                        \* the TrayIcon, setup_requested[0] and the tray thread

\* the MIDIHandler's fields
midiVars == <<knob_sensitivity, knob_previous_values>>

\* the MonitorController and the display behind it
drvVars == <<monitor_index, monitor, vcp, trace>>

\* the ControlMapper's fields
mapperVars == <<brightness, night_mode, local_dimming_enabled, hdr_enabled,
                current_night_mode_step>>

\* main() and its session
sessionVars == <<always_start_calibrated, pc, event, nevents, track, inport, tray>>

vars == <<knob, call, knob_sensitivity, knob_previous_values, loop,
          monitor_index, monitor, vcp, trace,
          always_start_calibrated, brightness, night_mode, local_dimming_enabled,
          hdr_enabled, current_night_mode_step, pc, event, nevents, track,
          inport, tray>>

----------------------------------------------------------------------------
(* Bounds of the model *)

\* adjust() deltas run over -MaxDelta..MaxDelta
MaxDelta == 30
\* set() values run over (0 - MaxOver)..(100 + MaxOver)
MaxOver == 10
\* SpecLoop: samples observed after the first one
MaxLoop == 4
\* SpecEnc: calls of calculate_absolute_delta in a behaviour
MaxObs == 2
\* get_monitors() lists 0..MaxMonitors displays
MaxMonitors == 1
\* Spec: messages received in a session
MaxEvents == 3

----------------------------------------------------------------------------
(* Python helpers *)

Max2(a, b) == IF a >= b THEN a ELSE b
Min2(a, b) == IF a <= b THEN a ELSE b
Abs(x) == IF x >= 0 THEN x ELSE 0 - x

\* int(n / d) for d > 0: truncation toward zero
TruncDiv(n, d) == IF n >= 0 THEN n \div d ELSE 0 - ((0 - n) \div d)

NoCall == [op |-> "none"]

\* a harness that makes no use of the MIDI handler
MidiUnused ==
    /\ knob_sensitivity = 2
    /\ knob_previous_values = << >>
    /\ loop = NoCall

\* the display as the factory leaves it
FactoryVcp ==
    [brightness |-> 50, red_gain |-> 100, green_gain |-> 100, blue_gain |-> 100,
     local_dimming |-> 1]

\* a harness that makes no use of the display driver
DrvUnused ==
    /\ monitor_index = 0
    /\ monitor = << >>
    /\ vcp = FactoryVcp
    /\ trace = << >>

----------------------------------------------------------------------------
(* virtual_knob.py *)

\* VirtualKnob.__init__
VirtualKnob(name, initial, min_val, max_val) ==
    [name |-> name, position |-> initial, min |-> min_val, max |-> max_val]

\* adjust with the upper clamp left out
adjust_no_upper_clamp(k, delta) ==
    LET old_position == k.position
        position == Max2(k.min, k.position + delta)
        hit_limit == (position # old_position + delta) /\ (delta # 0)
    IN  [knob |-> [k EXCEPT !.position = position],
         ret |-> position, hit_limit |-> hit_limit]

\* adjust with the limit test of control_mappings.KnobState.adjust: on a bound
\* and moved
adjust_limit_when_on_bound(k, delta) ==
    LET old_position == k.position
        position == Max2(k.min, Min2(k.max, k.position + delta))
        hit_limit == (position = k.max \/ position = k.min) /\ old_position # position
    IN  [knob |-> [k EXCEPT !.position = position],
         ret |-> position, hit_limit |-> hit_limit]

\* VirtualKnob.adjust: the knob after the call and the returned pair
adjust(k, delta) ==
    LET old_position == k.position
        position == Max2(k.min, Min2(k.max, k.position + delta))
        hit_limit == (position # old_position + delta) /\ (delta # 0)
    IN  [knob |-> [k EXCEPT !.position = position],
         ret |-> position, hit_limit |-> hit_limit]

\* VirtualKnob.set: the knob after the call and the returned value
set(k, value) ==
    LET position == Max2(k.min, Min2(k.max, value))
    IN  [knob |-> [k EXCEPT !.position = position], ret |-> position]

\* The two knobs ControlMapper.__init__ constructs
BrightnessKnob == VirtualKnob("Brightness", 75, 0, 100)
NightModeKnob == VirtualKnob("Night Mode", 100, 0, 100)

\* no step of the night-mode knob is being followed
NoTrack ==
    [active |-> FALSE, writes |-> << >>, inregion |-> FALSE, thru75 |-> FALSE,
     last |-> 0 - 1]

\* TrayIcon.__init__ and setup_requested = [False]: no tray thread yet. at:
\* where the tray thread is; clicked: the menu item chosen; closed_midi,
\* closed_display: the tray thread itself disconnected the device;
\* during_handle: it did so while the worker was inside handle_event; after:
\* the events the worker handled since a menu item was chosen; cleaned: the
\* worker ran cleanup_connections()
NoTray ==
    [running |-> FALSE, setup_requested |-> FALSE, at |-> "none",
     clicked |-> "none", closed_midi |-> FALSE, closed_display |-> FALSE,
     during_handle |-> FALSE, after |-> 0, cleaned |-> FALSE]

\* a harness that runs no session: the mapper as constructed, main() not begun
SessionUnused ==
    /\ always_start_calibrated = TRUE
    /\ brightness = BrightnessKnob
    /\ night_mode = NightModeKnob
    /\ local_dimming_enabled = TRUE
    /\ hdr_enabled = FALSE
    /\ current_night_mode_step = 100
    /\ pc = "start"
    /\ event = NoCall
    /\ nevents = 0
    /\ track = NoTrack
    /\ inport = "none"
    /\ tray = NoTray

----------------------------------------------------------------------------
(* SpecKnob: a VirtualKnob object and its callers *)

InitKnob ==
    /\ knob \in {BrightnessKnob, NightModeKnob}
    /\ call = NoCall
    /\ MidiUnused
    /\ DrvUnused
    /\ SessionUnused

KnobAdjust(delta) ==
    \E r \in {adjust(knob, delta)} :
        /\ knob' = r.knob
        /\ call' = [op |-> "adjust", old |-> knob.position, arg |-> delta,
                    ret |-> r.ret, hit_limit |-> r.hit_limit]
        /\ UNCHANGED <<midiVars, loop, drvVars, mapperVars, sessionVars>>

KnobSet(value) ==
    \E r \in {set(knob, value)} :
        /\ knob' = r.knob
        /\ call' = [op |-> "set", arg |-> value, ret |-> r.ret]
        /\ UNCHANGED <<midiVars, loop, drvVars, mapperVars, sessionVars>>

NextKnob ==
    \/ \E delta \in (0 - MaxDelta)..MaxDelta : KnobAdjust(delta)
    \/ \E value \in (0 - MaxOver)..(100 + MaxOver) : KnobSet(value)

SpecKnob == InitKnob /\ [][NextKnob]_vars

\* C1: on a knob constructed with min <= initial <= max, after any sequence of
\* adjust(delta) and set(value) calls min <= position <= max holds between
\* calls, and the value each call returned is the stored position.
C1_PositionInRange ==
    /\ knob.min <= knob.position
    /\ knob.position <= knob.max
    /\ call.op \in {"adjust", "set"} => call.ret = knob.position

\* an adjust that had to clamp at the top, and a set below the bottom
C1_Witness ==
    \/ /\ call.op = "adjust"
       /\ call.old + call.arg > knob.max
       /\ knob.position = knob.max
    \/ /\ call.op = "set"
       /\ call.arg < knob.min
       /\ knob.position = knob.min

\* C2: adjust(delta) at position p returns hit_limit = TRUE iff delta # 0 and
\* p + delta lies outside [min, max]; landing exactly on a bound, and delta = 0
\* at a bound, report FALSE.
C2_HitLimitIffCrossed ==
    call.op = "adjust" =>
        (call.hit_limit <=>
            /\ call.arg # 0
            /\ \/ call.old + call.arg < knob.min
               \/ call.old + call.arg > knob.max)

\* a move that lands exactly on max without overshooting
C2_Witness ==
    /\ call.op = "adjust"
    /\ call.arg > 0
    /\ call.old + call.arg = knob.max
    /\ call.hit_limit = FALSE

----------------------------------------------------------------------------
(* control_mapper.py: the night-mode quantizer *)

\* ControlMapper.night_mode_steps
night_mode_steps == <<0, 25, 50, 75, 100>>

\* Python's min(seq, key=...): the first element whose key is minimal
RECURSIVE ClosestFrom(_, _, _, _)
ClosestFrom(steps, value, i, best) ==
    IF i > Len(steps)
    THEN best
    ELSE ClosestFrom(steps, value, i + 1,
                     IF Abs(steps[i] - value) < Abs(best - value)
                     THEN steps[i] ELSE best)

\* a quantizer that truncates to the step below instead of the nearest one
get_night_mode_step_floor(value) ==
    IF value < 0 THEN 0 ELSE IF value > 100 THEN 100 ELSE value - (value % 25)

\* ControlMapper._get_night_mode_step
get_night_mode_step(value) ==
    ClosestFrom(night_mode_steps, value, 2, night_mode_steps[1])

----------------------------------------------------------------------------
(* SpecStep: _get_night_mode_step applied to inputs *)

InitStep ==
    /\ knob = NightModeKnob
    /\ call = NoCall
    /\ MidiUnused
    /\ DrvUnused
    /\ SessionUnused

Quantize(value) ==
    /\ call' = [op |-> "step", arg |-> value, ret |-> get_night_mode_step(value)]
    /\ UNCHANGED <<knob, midiVars, loop, drvVars, mapperVars, sessionVars>>

NextStep == \E value \in (0 - MaxOver)..(100 + MaxOver) : Quantize(value)

SpecStep == InitStep /\ [][NextStep]_vars

StepSet == {night_mode_steps[i] : i \in 1..Len(night_mode_steps)}

\* C9: for every integer v in 0..100, _get_night_mode_step(v) is one of the
\* five levels, no level is nearer to v, and among equally near levels it is
\* the lowest; 62 gives 50 and 37 gives 25.
C9_NearestStep ==
    (call.op = "step" /\ call.arg \in 0..100) =>
        /\ call.ret \in StepSet
        /\ \A s \in StepSet :
              /\ Abs(call.ret - call.arg) <= Abs(s - call.arg)
              /\ Abs(s - call.arg) = Abs(call.ret - call.arg) => call.ret <= s
        /\ call.arg = 62 => call.ret = 50
        /\ call.arg = 37 => call.ret = 25

\* 62 was quantized, to 50
C9_Witness == call.op = "step" /\ call.arg = 62 /\ call.ret = 50

----------------------------------------------------------------------------
(* midi_handler.py: the absolute-encoder delta tracker *)

\* the size of the sample domain 0..127 and the wrap threshold
R == 128
HalfR == 64

\* Config.knob_brightness: the control id the harnesses observe
knob_brightness == 1

\* knob_sensitivity is held in halves (2 is the default 1.0), so that
\* int(inverted_delta * knob_sensitivity) is TruncDiv(inverted_delta * s, 2)
Sensitivities == {2, 3}

\* calculate_absolute_delta with the wrap-forward branch left out
calculate_absolute_delta_no_wrap_forward(prev_values, sensitivity, control_id, current_value) ==
    IF control_id \notin DOMAIN prev_values
    THEN [prev |-> (control_id :> current_value) @@ prev_values,
          first |-> TRUE, previous |-> current_value, raw |-> 0, ret |-> 0]
    ELSE LET previous == prev_values[control_id]
             raw_delta == current_value - previous
             wrapped == IF raw_delta > HalfR THEN raw_delta - R ELSE raw_delta
         IN  [prev |-> (control_id :> current_value) @@ prev_values,
              first |-> FALSE, previous |-> previous, raw |-> wrapped,
              ret |-> TruncDiv((0 - wrapped) * sensitivity, 2)]

\* calculate_absolute_delta wrapping by the largest sample instead of the
\* size of the domain
calculate_absolute_delta_wrap_127(prev_values, sensitivity, control_id, current_value) ==
    IF control_id \notin DOMAIN prev_values
    THEN [prev |-> (control_id :> current_value) @@ prev_values,
          first |-> TRUE, previous |-> current_value, raw |-> 0, ret |-> 0]
    ELSE LET previous == prev_values[control_id]
             raw_delta == current_value - previous
             wrapped == IF raw_delta > HalfR THEN raw_delta - (R - 1)
                        ELSE IF raw_delta < 0 - HalfR THEN raw_delta + (R - 1)
                        ELSE raw_delta
         IN  [prev |-> (control_id :> current_value) @@ prev_values,
              first |-> FALSE, previous |-> previous, raw |-> wrapped,
              ret |-> TruncDiv((0 - wrapped) * sensitivity, 2)]

\* calculate_absolute_delta keeping the baseline of the last control only
calculate_absolute_delta_forgets_others(prev_values, sensitivity, control_id, current_value) ==
    IF control_id \notin DOMAIN prev_values
    THEN [prev |-> (control_id :> current_value),
          first |-> TRUE, previous |-> current_value, raw |-> 0, ret |-> 0]
    ELSE LET previous == prev_values[control_id]
             raw_delta == current_value - previous
             wrapped == IF raw_delta > HalfR THEN raw_delta - R
                        ELSE IF raw_delta < 0 - HalfR THEN raw_delta + R
                        ELSE raw_delta
         IN  [prev |-> (control_id :> current_value),
              first |-> FALSE, previous |-> previous, raw |-> wrapped,
              ret |-> TruncDiv((0 - wrapped) * sensitivity, 2)]

\* MIDIHandler.calculate_absolute_delta: the dict after the call (prev), the
\* returned delta (ret), and the branch taken and the corrected raw delta
calculate_absolute_delta(prev_values, sensitivity, control_id, current_value) ==
    IF control_id \notin DOMAIN prev_values
    THEN [prev |-> (control_id :> current_value) @@ prev_values,
          first |-> TRUE, previous |-> current_value, raw |-> 0, ret |-> 0]
    ELSE LET previous == prev_values[control_id]
             raw_delta == current_value - previous
             wrapped == IF raw_delta > HalfR THEN raw_delta - R
                        ELSE IF raw_delta < 0 - HalfR THEN raw_delta + R
                        ELSE raw_delta
             inverted_delta == 0 - wrapped
             scaled_delta == TruncDiv(inverted_delta * sensitivity, 2)
         IN  [prev |-> (control_id :> current_value) @@ prev_values,
              first |-> FALSE, previous |-> previous, raw |-> wrapped,
              ret |-> scaled_delta]

----------------------------------------------------------------------------
(* SpecEnc: calculate_absolute_delta called with every sample of 0..127 *)
(* SpecLoop: the same calls, with the sum of the deltas since the first   *)

InitEnc ==
    /\ knob = BrightnessKnob
    /\ call = NoCall
    /\ knob_sensitivity \in Sensitivities
    /\ knob_previous_values = << >>
    /\ loop = NoCall
    /\ DrvUnused
    /\ SessionUnused

\* one call of calculate_absolute_delta
Observe(control_id, current_value) ==
    \E r \in {calculate_absolute_delta(knob_previous_values, knob_sensitivity,
                                         control_id, current_value)} :
        /\ knob_previous_values' = r.prev
        /\ call' = [op |-> "delta", id |-> control_id, first |-> r.first,
                    previous |-> r.previous, current |-> current_value,
                    raw |-> r.raw, ret |-> r.ret,
                    n |-> IF call.op = "delta" THEN call.n + 1 ELSE 1]
        /\ UNCHANGED <<knob, knob_sensitivity, drvVars, mapperVars, sessionVars>>

NextEnc ==
    \E current_value \in 0..(R - 1) :
        /\ call.op = "delta" => call.n < MaxObs
        /\ Observe(knob_brightness, current_value)
        /\ UNCHANGED loop

SpecEnc == InitEnc /\ [][NextEnc]_vars

\* samples on both sides of each wrap threshold
LoopSamples == {0, 1, HalfR - 1, HalfR, HalfR + 1, R - 1}

\* a call, and the running sum of what the calls returned
ObserveInLoop(current_value) ==
    /\ Observe(knob_brightness, current_value)
    /\ loop' = IF loop.op = "none"
               THEN [op |-> "loop", first |-> current_value, sum |-> 0, n |-> 0]
               ELSE [loop EXCEPT !.sum = @ + call'.ret, !.n = @ + 1]

NextLoop ==
    \E current_value \in LoopSamples :
        /\ loop.op = "loop" => loop.n < MaxLoop
        /\ ObserveInLoop(current_value)

SpecLoop == InitEnc /\ [][NextLoop]_vars

\* C4: for previous sample p and current sample c of the same control id the
\* corrected raw delta is congruent to c - p modulo 128 and lies in -64..64;
\* the returned delta is -(corrected raw) x sensitivity truncated toward zero,
\* so its absolute value is at most 64 when the sensitivity is 1.
C4_ShorterArc ==
    (call.op = "delta" /\ ~call.first) =>
        LET x == (0 - call.raw) * knob_sensitivity
        IN  /\ (call.raw - (call.current - call.previous)) % R = 0
            /\ call.raw >= 0 - HalfR
            /\ call.raw <= HalfR
            /\ x >= 0 => (call.ret >= 0 /\ 2 * call.ret <= x /\ x < 2 * call.ret + 2)
            /\ x <= 0 => (call.ret <= 0 /\ 2 * call.ret >= x /\ x > 2 * call.ret - 2)
            /\ knob_sensitivity = 2 => Abs(call.ret) <= HalfR

\* a wrap forward (127 -> 0 is one tick up), scaled by 1.5 and truncated
C4_Witness ==
    /\ call.op = "delta"
    /\ call.previous = R - 1
    /\ call.current = 0
    /\ call.raw = 1
    /\ knob_sensitivity = 3
    /\ call.ret = 0 - 1

\* C5: with sensitivity 1, over a sequence of samples of one control id whose
\* last sample equals its first, the deltas returned sum to 0 modulo 128.
C5_ClosedLoopSum ==
    (loop.op = "loop" /\ knob_sensitivity = 2 /\ loop.n >= 1
        /\ call.current = loop.first) =>
        loop.sum % R = 0

\* a closed loop once around the encoder: the deltas sum to -128, not to 0
C5_Witness ==
    /\ loop.op = "loop"
    /\ knob_sensitivity = 2
    /\ call.current = loop.first
    /\ loop.n = 3
    /\ loop.sum = 0 - R

----------------------------------------------------------------------------
(* monitor_controller.py: the display driver *)

\* What the driver does is kept as a sequence of steps: the scoped session
\* (with self.monitor: open ... close), each register access and its outcome,
\* disconnect() and connect().
Ev(e, code, value, ok) == [e |-> e, code |-> code, value |-> value, ok |-> ok]

\* the driver and the display it talks to, as one value passed through a call
Drv == [index |-> monitor_index, monitor |-> monitor, vcp |-> vcp, trace |-> << >>]

\* what a call gives back: the driver after it, whether it raised, its result
Returned(d, ret) == [d |-> d, raised |-> FALSE, ret |-> ret]
Raised(d) == [d |-> d, raised |-> TRUE, ret |-> FALSE]

\* a session that stays open when one of its writes raises
Session_left_open_on_failure(d, writes, k) ==
    LET done == Min2(k, Len(writes))
        tried == Min2(k + 1, Len(writes))
        written(c) == {i \in 1..done : writes[i].code = c}
    IN  [d EXCEPT
            !.vcp = [c \in DOMAIN d.vcp |->
                        IF written(c) # {}
                        THEN writes[CHOOSE i \in written(c) : TRUE].value
                        ELSE d.vcp[c]],
            !.trace = d.trace \o <<Ev("open", "", 0, TRUE)>>
                      \o [i \in 1..tried |->
                            Ev("write", writes[i].code, writes[i].value, i <= done)]
                      \o (IF done = Len(writes) THEN <<Ev("close", "", 0, TRUE)>>
                          ELSE << >>)]

\* with self.monitor: a sequence of set_vcp_feature calls, of which the
\* first k succeed and the next one raises; the session is closed either way
Session(d, writes, k) ==
    LET done == Min2(k, Len(writes))
        tried == Min2(k + 1, Len(writes))
        written(c) == {i \in 1..done : writes[i].code = c}
    IN  [d EXCEPT
            !.vcp = [c \in DOMAIN d.vcp |->
                        IF written(c) # {}
                        THEN writes[CHOOSE i \in written(c) : TRUE].value
                        ELSE d.vcp[c]],
            !.trace = d.trace \o <<Ev("open", "", 0, TRUE)>>
                      \o [i \in 1..tried |->
                            Ev("write", writes[i].code, writes[i].value, i <= done)]
                      \o <<Ev("close", "", 0, TRUE)>>]

\* with self.monitor: one get_vcp_feature call
ReadSession(d, code, ok) ==
    [d EXCEPT !.trace = d.trace \o <<Ev("open", "", 0, TRUE),
                                     Ev("read", code, d.vcp[code], ok),
                                     Ev("close", "", 0, TRUE)>>]

W(code, value) == [code |-> code, value |-> value]

\* MonitorController.disconnect
disconnect(d) ==
    [d EXCEPT !.monitor = << >>,
              !.trace = Append(d.trace, Ev("disconnect", "", 0, TRUE))]

\* MonitorController.connect, get_monitors() listing n displays
connect(d, n) ==
    IF n = 0 \/ d.index >= n \/ d.index < 0 - n
    THEN Raised([d EXCEPT !.trace = Append(d.trace, Ev("connect", "", 0, FALSE))])
    ELSE Returned([d EXCEPT
                      !.monitor = <<IF d.index >= 0 THEN d.index ELSE n + d.index>>,
                      !.trace = Append(d.trace, Ev("connect", "", 0, TRUE))],
                  TRUE)

\* MonitorController.reconnect
reconnect(d, n) == connect(disconnect(d), n)

\* set_brightness transmitting the value as passed
set_brightness_no_clamp(d, value, o) ==
    IF d.monitor = << >>
    THEN Raised(d)
    ELSE LET first == Session(d, <<W("brightness", value)>>, IF o.w1 THEN 1 ELSE 0)
         IN  IF o.w1
             THEN Returned(first, TRUE)
             ELSE LET rc == reconnect(first, o.n)
                  IN  IF rc.raised
                      THEN Returned(rc.d, FALSE)
                      ELSE Returned(Session(rc.d, <<W("brightness", value)>>,
                                            IF o.w2 THEN 1 ELSE 0),
                                    o.w2)

\* set_brightness retrying with the value as passed, not as clamped
set_brightness_retry_unclamped(d, value, o) ==
    IF d.monitor = << >>
    THEN Raised(d)
    ELSE LET v == Max2(0, Min2(100, value))
             first == Session(d, <<W("brightness", v)>>, IF o.w1 THEN 1 ELSE 0)
         IN  IF o.w1
             THEN Returned(first, TRUE)
             ELSE LET rc == reconnect(first, o.n)
                  IN  IF rc.raised
                      THEN Returned(rc.d, FALSE)
                      ELSE Returned(Session(rc.d, <<W("brightness", value)>>,
                                            IF o.w2 THEN 1 ELSE 0),
                                    o.w2)

\* MonitorController.set_brightness. o.w1: the first write succeeds; o.n: the
\* displays listed on reconnect; o.w2: the retried write succeeds
set_brightness(d, value, o) ==
    IF d.monitor = << >>
    THEN Raised(d)
    ELSE LET v == Max2(0, Min2(100, value))
             first == Session(d, <<W("brightness", v)>>, IF o.w1 THEN 1 ELSE 0)
         IN  IF o.w1
             THEN Returned(first, TRUE)
             ELSE LET rc == reconnect(first, o.n)
                  IN  IF rc.raised
                      THEN Returned(rc.d, FALSE)
                      ELSE Returned(Session(rc.d, <<W("brightness", v)>>,
                                            IF o.w2 THEN 1 ELSE 0),
                                    o.w2)

\* set_night_mode restoring the registers when one of its writes fails
set_night_mode_rolls_back(d, intensity, k) ==
    IF d.monitor = << >>
    THEN Raised(d)
    ELSE LET red == 100
             green == 60 + TruncDiv(intensity * 40, 100)
             blue == 20 + TruncDiv(intensity * 80, 100)
             s == Session(d, <<W("red_gain", red), W("green_gain", green),
                               W("blue_gain", blue)>>, k)
         IN  IF k >= 3 THEN Returned(s, TRUE)
             ELSE Returned([s EXCEPT !.vcp = d.vcp], FALSE)

\* MonitorController.set_night_mode; the first k register writes succeed
set_night_mode(d, intensity, k) ==
    IF d.monitor = << >>
    THEN Raised(d)
    ELSE LET red == 100
             green == 60 + TruncDiv(intensity * 40, 100)
             blue == 20 + TruncDiv(intensity * 80, 100)
         IN  Returned(Session(d, <<W("red_gain", red), W("green_gain", green),
                                   W("blue_gain", blue)>>, k),
                      k >= 3)

\* set_blue_gain taking its argument as a decrement of the register
set_blue_gain_relative(d, value, ok) ==
    IF d.monitor = << >>
    THEN Raised(d)
    ELSE Returned(Session(d, <<W("blue_gain", d.vcp.blue_gain - value)>>,
                          IF ok THEN 1 ELSE 0),
                  ok)

\* MonitorController.set_blue_gain
set_blue_gain(d, value, ok) ==
    IF d.monitor = << >>
    THEN Raised(d)
    ELSE Returned(Session(d, <<W("blue_gain", Max2(0, Min2(100, value)))>>,
                          IF ok THEN 1 ELSE 0),
                  ok)

\* MonitorController.set_local_dimming
set_local_dimming(d, enabled, ok) ==
    IF d.monitor = << >>
    THEN Raised(d)
    ELSE Returned(Session(d, <<W("local_dimming", IF enabled THEN 1 ELSE 0)>>,
                          IF ok THEN 1 ELSE 0),
                  ok)

\* get_brightness reconnecting after a failed read, as set_brightness does
\* after a failed write
get_brightness_reconnects(d, ok) ==
    IF d.monitor = << >>
    THEN Raised(d)
    ELSE IF ok
         THEN Returned(ReadSession(d, "brightness", TRUE), <<d.vcp.brightness>>)
         ELSE Returned(reconnect(ReadSession(d, "brightness", FALSE), 0).d, << >>)

\* MonitorController.get_brightness: <<value>>, or << >> for None
get_brightness(d, ok) ==
    IF d.monitor = << >>
    THEN Raised(d)
    ELSE Returned(ReadSession(d, "brightness", ok),
                  IF ok THEN <<d.vcp.brightness>> ELSE << >>)

\* MonitorController.get_blue_gain
get_blue_gain(d, ok) ==
    IF d.monitor = << >>
    THEN Raised(d)
    ELSE Returned(ReadSession(d, "blue_gain", ok),
                  IF ok THEN <<d.vcp.blue_gain>> ELSE << >>)

\* MonitorController.get_local_dimming
get_local_dimming(d, ok) ==
    IF d.monitor = << >>
    THEN Raised(d)
    ELSE Returned(ReadSession(d, "local_dimming", ok),
                  IF ok THEN <<d.vcp.local_dimming # 0>> ELSE << >>)

----------------------------------------------------------------------------
(* SpecDrv: the MonitorController operations, called one at a time, with   *)
(* every outcome of the register accesses and of get_monitors()            *)

\* Config.monitor_index
MonitorIndexes == {0, 1}

BrightnessArgs == {0 - 5, 0, 40, 100, 150}
BlueGainArgs == {0 - 5, 40, 150}
IntensityArgs == {0, 33, 50, 100, 150}

\* what can happen inside one set_brightness call: the write succeeds; it
\* fails and no display is listed; it fails, n displays are listed and the
\* retried write succeeds or fails
BrightnessOutcomes ==
    {[w1 |-> TRUE, n |-> 1, w2 |-> TRUE], [w1 |-> FALSE, n |-> 0, w2 |-> FALSE]}
    \cup {[w1 |-> FALSE, n |-> n, w2 |-> w2] : n \in 1..MaxMonitors, w2 \in BOOLEAN}

InitDrv ==
    /\ knob = BrightnessKnob
    /\ call = NoCall
    /\ MidiUnused
    /\ monitor_index \in MonitorIndexes
    /\ monitor = << >>
    /\ vcp = FactoryVcp
    /\ trace = << >>
    /\ SessionUnused

\* the call about to be made repeats the one before it, a write that
\* succeeded, with the same argument
Reissue(op, arg) ==
    /\ op \in {"set_brightness", "set_blue_gain", "set_night_mode", "set_local_dimming"}
    /\ call.op = op
    /\ call.arg = arg
    /\ ~call.raised
    /\ call.ret = TRUE

\* the driver after a call, and the call with what it returned
DrvCalled(op, arg, returned) ==
    /\ \E r \in {returned} :
          /\ monitor' = r.d.monitor
          /\ vcp' = r.d.vcp
          /\ trace' = r.d.trace
          /\ call' = [op |-> op, arg |-> arg, raised |-> r.raised, ret |-> r.ret,
                       again |-> Reissue(op, arg)]
    /\ UNCHANGED <<knob, midiVars, loop, monitor_index, mapperVars, sessionVars>>

DrvConnect(n) == DrvCalled("connect", n, connect(Drv, n))

DrvDisconnect == DrvCalled("disconnect", 0, Returned(disconnect(Drv), TRUE))

DrvSetBrightness(value, o) ==
    DrvCalled("set_brightness", value, set_brightness(Drv, value, o))

DrvSetNightMode(intensity, k) ==
    DrvCalled("set_night_mode", intensity, set_night_mode(Drv, intensity, k))

DrvSetBlueGain(value, ok) ==
    DrvCalled("set_blue_gain", value, set_blue_gain(Drv, value, ok))

DrvSetLocalDimming(enabled, ok) ==
    DrvCalled("set_local_dimming", enabled, set_local_dimming(Drv, enabled, ok))

DrvGetBrightness(ok) == DrvCalled("get_brightness", 0, get_brightness(Drv, ok))

DrvGetBlueGain(ok) == DrvCalled("get_blue_gain", 0, get_blue_gain(Drv, ok))

DrvGetLocalDimming(ok) ==
    DrvCalled("get_local_dimming", 0, get_local_dimming(Drv, ok))

NextDrv ==
    \/ \E n \in 0..MaxMonitors : DrvConnect(n)
    \/ DrvDisconnect
    \/ \E value \in BrightnessArgs, o \in BrightnessOutcomes :
          DrvSetBrightness(value, o)
    \/ \E intensity \in IntensityArgs, k \in 0..3 : DrvSetNightMode(intensity, k)
    \/ \E value \in BlueGainArgs, ok \in BOOLEAN : DrvSetBlueGain(value, ok)
    \/ \E enabled \in BOOLEAN, ok \in BOOLEAN : DrvSetLocalDimming(enabled, ok)
    \/ \E ok \in BOOLEAN : DrvGetBrightness(ok)
    \/ \E ok \in BOOLEAN : DrvGetBlueGain(ok)
    \/ \E ok \in BOOLEAN : DrvGetLocalDimming(ok)

SpecDrv == InitDrv /\ [][NextDrv]_vars

\* the steps of the last operation that are e
Steps(e) == {i \in DOMAIN trace : trace[i].e = e}
FailedWrites == {i \in Steps("write") : ~trace[i].ok}
MutatingOps == {"set_brightness", "set_blue_gain", "set_night_mode", "set_local_dimming"}

\* C10: every mutating display operation reacts to a failed write with exactly
\* one reconnect cycle (disconnect, then connect) and one retry of the write in
\* a fresh session, and returns failure only if the retry fails too.
C10_EveryWriteReconnectsAndRetries ==
    (call.op \in MutatingOps /\ ~call.raised /\ FailedWrites # {}) =>
        LET f == CHOOSE i \in FailedWrites : \A j \in FailedWrites : i <= j
        IN  /\ Cardinality(Steps("disconnect")) = 1
            /\ Cardinality(Steps("connect")) = 1
            /\ \A i \in Steps("disconnect") : f < i
            /\ \A i \in Steps("disconnect"), j \in Steps("connect") : i < j
            /\ \A j \in Steps("connect") :
                  trace[j].ok =>
                      /\ \E i \in Steps("open") : i > j
                      /\ Cardinality({i \in Steps("write") : i > j}) >= 1
            /\ call.ret = FALSE =>
                  \/ \E j \in Steps("connect") : ~trace[j].ok
                  \/ \E i \in FailedWrites : \E j \in Steps("connect") : i > j

\* the set_brightness call just made returned (it did not raise Not connected)
BrightnessCall == call.op = "set_brightness" /\ ~call.raised

\* the first write of the last operation failed and the connect() of the
\* reconnect that followed succeeded
FirstWriteFailedReconnected ==
    /\ Steps("write") # {}
    /\ \A i \in Steps("write") : (\A j \in Steps("write") : i <= j) => ~trace[i].ok
    /\ \E j \in Steps("connect") : trace[j].ok

\* the writes attempted after the reconnect
RetriedWrites == {i \in Steps("write") : \E j \in Steps("connect") : i > j}

\* C11 as stated: when the first write of set_brightness fails and the
\* reconnect succeeds, there is exactly one retried write with the same clamped
\* value, the call returns success and the driver is connected; and a call
\* makes at most two write attempts and at most one reconnect cycle.
C11_RetryReturnsSuccess ==
    BrightnessCall =>
        /\ Cardinality(Steps("write")) <= 2
        /\ Cardinality(Steps("disconnect")) <= 1
        /\ Cardinality(Steps("connect")) <= 1
        /\ FirstWriteFailedReconnected =>
              /\ Cardinality(RetriedWrites) = 1
              /\ \A i \in Steps("write") :
                    /\ trace[i].code = "brightness"
                    /\ trace[i].value = Max2(0, Min2(100, call.arg))
              /\ call.ret = TRUE
              /\ monitor # << >>

\* C11 as amended: when the first write of set_brightness fails and the
\* reconnect succeeds, there is exactly one retried write, in a session opened
\* after the connect, with the same clamped value; the call returns the outcome
\* of that retried write (success when it goes through, failure when it fails
\* too) and the driver is connected; and a call makes at most two write
\* attempts and at most one reconnect cycle (one disconnect, then one connect).
C11_RetryOutcomeReturned ==
    BrightnessCall =>
        /\ Cardinality(Steps("write")) <= 2
        /\ Cardinality(Steps("disconnect")) <= 1
        /\ Cardinality(Steps("connect")) <= 1
        /\ \A i \in Steps("disconnect"), j \in Steps("connect") : i < j
        /\ FirstWriteFailedReconnected =>
              /\ Cardinality(RetriedWrites) = 1
              /\ \A i \in Steps("write") :
                    /\ trace[i].code = "brightness"
                    /\ trace[i].value = Max2(0, Min2(100, call.arg))
              /\ \A i \in RetriedWrites :
                    /\ \E j \in Steps("connect"), k \in Steps("open") : j < k /\ k < i
                    /\ call.ret = trace[i].ok
              /\ monitor # << >>

\* set_brightness(150): the write of 100 fails, the reconnect succeeds and the
\* retried write of 100 goes through
C11_Witness ==
    /\ BrightnessCall
    /\ call.arg = 150
    /\ FirstWriteFailedReconnected
    /\ \E i \in RetriedWrites : trace[i].ok /\ trace[i].value = 100
    /\ call.ret = TRUE

\* C12: whenever set_brightness returns failure, nothing more was attempted
\* (two write attempts and one reconnect at most) and the driver is left
\* connected: its monitor handle is set, so the next display operation returns
\* a boolean or None instead of raising.
C12_FailureLeavesConnected ==
    (BrightnessCall /\ call.ret = FALSE) =>
        /\ Cardinality(Steps("write")) <= 2
        /\ Cardinality(Steps("connect")) <= 1
        /\ monitor # << >>

\* C24: for every input v, each value set_brightness(v) transmits, on the
\* first attempt and on the retry alike, is clamp(v, 0, 100): 150 is sent as
\* 100 and -5 as 0; a successful call leaves that value in the register.
C24_TransmitsClamped ==
    BrightnessCall =>
        /\ Steps("write") # {}
        /\ \A i \in Steps("write") :
              /\ trace[i].code = "brightness"
              /\ trace[i].value \in 0..100
              /\ call.arg > 100 => trace[i].value = 100
              /\ call.arg < 0 => trace[i].value = 0
              /\ call.arg \in 0..100 => trace[i].value = call.arg
        /\ call.ret = TRUE => vcp.brightness \in 0..100

\* set_brightness(-5): 0 is sent, fails, and is sent again after the reconnect
C24_Witness ==
    /\ BrightnessCall
    /\ call.arg = 0 - 5
    /\ Cardinality(Steps("write")) = 2
    /\ \A i \in Steps("write") : trace[i].value = 0
    /\ vcp.brightness = 0

\* the last operation was a blue-gain or night-mode write that returned
ColourCall == call.op \in {"set_blue_gain", "set_night_mode"} /\ ~call.raised

\* C25: the colour writes clamp their input before transmission: whatever the
\* input, every register value written by set_blue_gain and by set_night_mode
\* (red, green and blue gain) lies in 0..100.
C25_ColourWritesClamped ==
    ColourCall => \A i \in Steps("write") : trace[i].value \in 0..100

\* what holds of the colour writes: set_blue_gain clamps; set_night_mode
\* writes 100, 60 + 0.4 x intensity and 20 + 0.8 x intensity as they come
ColourWritesAsComputed ==
    /\ call.op = "set_blue_gain" /\ ~call.raised =>
          \A i \in Steps("write") : trace[i].value = Max2(0, Min2(100, call.arg))
    /\ call.op = "set_night_mode" /\ ~call.raised /\ call.arg > 100 =>
          \A i \in Steps("write") :
              trace[i].code \in {"green_gain", "blue_gain"} => trace[i].value > 100

QueryOps == {"get_brightness", "get_blue_gain", "get_local_dimming"}

\* the register a query reads
QueryCode(op) ==
    IF op = "get_brightness" THEN "brightness"
    ELSE IF op = "get_blue_gain" THEN "blue_gain" ELSE "local_dimming"

\* the last operation was a query that returned
QueryCall == call.op \in QueryOps /\ ~call.raised

\* a query did one read of its register inside one session and nothing else,
\* and returned None if the read failed, the value read otherwise
SingleSessionRead ==
    QueryCall =>
        /\ Len(trace) = 3
        /\ trace[1].e = "open"
        /\ trace[2].e = "read" /\ trace[2].code = QueryCode(call.op)
        /\ trace[3].e = "close"
        /\ ~trace[2].ok => call.ret = << >>
        /\ trace[2].ok => call.ret # << >>
        /\ monitor # << >>

\* a query leaves the monitor handle and the display's registers as they were
QueryChangesNothing ==
    call'.op \in QueryOps => (monitor' = monitor /\ vcp' = vcp)

\* C26: the queries get_brightness, get_blue_gain and get_local_dimming make
\* a single scoped-session read, return None when the read fails, never
\* disconnect, connect or reconnect, and leave the driver's connection state
\* and the display's registers unchanged.
C26_QueriesReadOnly ==
    [] SingleSessionRead /\ [][QueryChangesNothing]_vars

\* a failed get_local_dimming returned None and the driver is still connected
C26_Witness ==
    /\ QueryCall
    /\ call.op = "get_local_dimming"
    /\ call.ret = << >>
    /\ ~trace[2].ok
    /\ monitor # << >>

\* the last operation was a night-mode write that returned
NightModeCall == call.op = "set_night_mode" /\ ~call.raised

\* the three register writes of set_night_mode(intensity), in their order
NightModeRegisters(intensity) ==
    <<W("red_gain", 100),
      W("green_gain", 60 + ((intensity * 40) \div 100)),
      W("blue_gain", 20 + ((intensity * 80) \div 100))>>

\* set_night_mode opened one session, attempted red, green, blue in this
\* order with the derived values up to the first failure, closed the session,
\* left every write that succeeded on the display and returned success only
\* if all three did
SequentialNoRollback ==
    NightModeCall =>
        LET regs == NightModeRegisters(call.arg)
            m == Len(trace) - 2
        IN  /\ m \in 1..3
            /\ trace[1].e = "open"
            /\ trace[Len(trace)].e = "close"
            /\ \A i \in 1..m :
                  /\ trace[i + 1].e = "write"
                  /\ trace[i + 1].code = regs[i].code
                  /\ trace[i + 1].value = regs[i].value
                  /\ i < m => trace[i + 1].ok
                  /\ trace[i + 1].ok => vcp[regs[i].code] = regs[i].value
            /\ m < 3 => ~trace[m + 1].ok
            /\ call.ret = (m = 3 /\ trace[4].ok)

\* set_night_mode changes no register but those it wrote successfully
UnwrittenUntouched ==
    call'.op = "set_night_mode" =>
        \A c \in DOMAIN vcp :
            (\A i \in DOMAIN trace' :
                ~(trace'[i].e = "write" /\ trace'[i].code = c /\ trace'[i].ok))
            => vcp'[c] = vcp[c]

\* C27: set_night_mode(intensity) derives red = 100, green = 60 +
\* floor(intensity x 40 / 100), blue = 20 + floor(intensity x 80 / 100) and
\* writes red, green, blue in this order inside one scoped session; if a write
\* fails, the earlier writes stay applied on the display (no rollback), the
\* later ones are not attempted and the operation returns failure.
C27_NightModeSequential ==
    [] SequentialNoRollback /\ [][UnwrittenUntouched]_vars

\* set_night_mode(33) failing on the blue gain: red 100 and green 73 are on
\* the display, the blue gain is not 46, and the call returned False
C27_Witness ==
    /\ NightModeCall
    /\ call.arg = 33
    /\ Len(trace) = 5
    /\ ~trace[4].ok
    /\ vcp.red_gain = 100
    /\ vcp.green_gain = 73
    /\ vcp.blue_gain # 46
    /\ call.ret = FALSE

\* the step is a second successful issue of the write just made, with the
\* same argument
SecondIssue ==
    /\ call'.op \in MutatingOps
    /\ call'.again
    /\ ~call'.raised
    /\ call'.ret = TRUE

\* C28: re-issuing the same successful set_* call (set_brightness,
\* set_blue_gain, set_night_mode, set_local_dimming) with the same argument
\* twice in a row leaves the display's registers as the first issue left
\* them: the write is absolute, not relative.
C28_SetIsIdempotent ==
    [][SecondIssue => vcp' = vcp]_vars

\* set_night_mode(33) issued twice, both times with success
C28_Witness ==
    /\ call.op = "set_night_mode"
    /\ call.again
    /\ call.arg = 33
    /\ call.ret = TRUE
    /\ vcp.green_gain = 73
    /\ vcp.blue_gain = 46

\* the sessions open after the first i steps of the last operation
OpenSessions(i) ==
    Cardinality({j \in 1..i : trace[j].e = "open"})
        - Cardinality({j \in 1..i : trace[j].e = "close"})

\* C29: at most one display protocol session is open at any time, every
\* register access happens inside one, and every driver operation releases
\* its session on every exit path (success, failed read, failed write, failed
\* retry, partial night-mode write): none is open when a get_* or set_* call
\* returns.
C29_SessionsReleased ==
    /\ \A i \in DOMAIN trace :
          /\ OpenSessions(i) \in {0, 1}
          /\ trace[i].e \in {"read", "write"} => OpenSessions(i) = 1
          /\ trace[i].e \in {"disconnect", "connect"} => OpenSessions(i) = 0
    /\ OpenSessions(Len(trace)) = 0

\* set_brightness whose write and retried write both failed: two sessions,
\* one after the other, both closed
C29_Witness ==
    /\ call.op = "set_brightness"
    /\ call.ret = FALSE
    /\ Cardinality(Steps("open")) = 2
    /\ Cardinality(Steps("close")) = 2
    /\ Cardinality(FailedWrites) = 2

----------------------------------------------------------------------------
(* control_mapper.py: the handlers *)

\* Config: the control ids of the four functions (and one routed nowhere)
knob_night_mode == 2
button_local_dimming == 8
button_hdr == 9
button_crosshair == 10

\* The mapper (self), the driver it holds, and what a handler did so far:
\* the driver calls it made, the LED calls it made, what it announced, and
\* whether an exception is propagating out of it.
Ctx ==
    [brightness |-> brightness, night_mode |-> night_mode,
     local_dimming_enabled |-> local_dimming_enabled,
     hdr_enabled |-> hdr_enabled,
     current_night_mode_step |-> current_night_mode_step,
     d |-> Drv, calls |-> << >>, leds |-> << >>, notes |-> << >>,
     raised |-> FALSE]

\* a driver call made by the mapper: the driver after it, and the call logged
Called(c, op, arg, r) ==
    [c EXCEPT !.d = r.d,
              !.calls = Append(@, [op |-> op, arg |-> arg, raised |-> r.raised,
                                   ret |-> r.ret]),
              !.raised = r.raised]

\* self.midi.set_led_ring(knob_id, position); after: the driver calls the
\* handler had made when it sent this
LedRing(c, knob_id, position) ==
    [c EXCEPT !.leds = Append(@, [kind |-> "ring", id |-> knob_id,
                                  value |-> position, after |-> Len(c.calls)])]

\* self.midi.set_button_led(button_id, state)
ButtonLed(c, button_id, state) ==
    [c EXCEPT !.leds = Append(@, [kind |-> "button", id |-> button_id,
                                  value |-> state, after |-> Len(c.calls)])]

\* int((new_val / 100) * 11)
led_pos(new_val) == TruncDiv(new_val * 11, 100)

\* ControlMapper.handle_brightness_knob
handle_brightness_knob(c, delta, o) ==
    LET a == adjust(c.brightness, delta)
        c1 == [c EXCEPT !.brightness = a.knob]
        c2 == Called(c1, "set_brightness", a.ret, set_brightness(c1.d, a.ret, o.b))
    IN  IF c2.raised THEN c2
        ELSE LedRing(c2, knob_brightness, led_pos(a.ret))

\* a step test that always asks for a write
step_changed_always(new_step, current_step) == TRUE

\* if new_step != self.current_night_mode_step
step_changed(new_step, current_step) == new_step # current_step

\* handle_night_mode_knob passing the knob position to the display
handle_night_mode_knob_writes_position(c, delta, o) ==
    LET a == adjust(c.night_mode, delta)
        new_step == get_night_mode_step(a.ret)
        c1 == [c EXCEPT !.night_mode = a.knob]
        c2 == IF step_changed(new_step, c1.current_night_mode_step)
              THEN LET w == Called(c1, "set_night_mode", a.ret,
                                   set_night_mode(c1.d, a.ret, o.k))
                   IN  IF w.raised THEN w
                       ELSE [w EXCEPT !.current_night_mode_step = new_step]
              ELSE c1
        c3 == LedRing(c2, knob_night_mode, led_pos(a.ret))
    IN  IF c2.raised THEN c2
        ELSE IF a.hit_limit /\ a.ret = 100
             THEN [c3 EXCEPT !.notes = Append(@, "calibrated")]
             ELSE c3

\* handle_night_mode_knob committing the step only when its write succeeded
handle_night_mode_knob_commits_on_success(c, delta, o) ==
    LET a == adjust(c.night_mode, delta)
        new_step == get_night_mode_step(a.ret)
        c1 == [c EXCEPT !.night_mode = a.knob]
        c2 == IF step_changed(new_step, c1.current_night_mode_step)
              THEN LET w == Called(c1, "set_night_mode", new_step,
                                   set_night_mode(c1.d, new_step, o.k))
                   IN  IF w.raised \/ o.k < 3 THEN w
                       ELSE [w EXCEPT !.current_night_mode_step = new_step]
              ELSE c1
        c3 == LedRing(c2, knob_night_mode, led_pos(a.ret))
    IN  IF c2.raised THEN c2
        ELSE IF a.hit_limit /\ a.ret = 100
             THEN [c3 EXCEPT !.notes = Append(@, "calibrated")]
             ELSE c3

\* ControlMapper.handle_night_mode_knob
handle_night_mode_knob(c, delta, o) ==
    LET a == adjust(c.night_mode, delta)
        new_step == get_night_mode_step(a.ret)
        c1 == [c EXCEPT !.night_mode = a.knob]
        c2 == IF step_changed(new_step, c1.current_night_mode_step)
              THEN LET w == Called(c1, "set_night_mode", new_step,
                                   set_night_mode(c1.d, new_step, o.k))
                   IN  IF w.raised THEN w
                       ELSE [w EXCEPT !.current_night_mode_step = new_step]
              ELSE c1
        c3 == LedRing(c2, knob_night_mode, led_pos(a.ret))
    IN  IF c2.raised THEN c2
        ELSE IF a.hit_limit /\ a.ret = 100
             THEN [c3 EXCEPT !.notes = Append(@, "calibrated")]
             ELSE c3

\* ControlMapper.handle_local_dimming_button
handle_local_dimming_button(c, o) ==
    LET c1 == [c EXCEPT !.local_dimming_enabled = ~c.local_dimming_enabled]
        c2 == Called(c1, "set_local_dimming", c1.local_dimming_enabled,
                     set_local_dimming(c1.d, c1.local_dimming_enabled, o.ok))
    IN  IF c2.raised THEN c2
        ELSE ButtonLed(c2, button_local_dimming, c2.local_dimming_enabled)

\* ControlMapper.handle_hdr_button
handle_hdr_button(c) ==
    ButtonLed([c EXCEPT !.hdr_enabled = FALSE], button_hdr, FALSE)

\* handle_event routing by control id alone, whatever the kind of the control
handle_event_by_id_only(c, ev, o) ==
    IF ev.control_id = knob_brightness
    THEN handle_brightness_knob(c, ev.delta, o)
    ELSE IF ev.control_id = knob_night_mode
    THEN handle_night_mode_knob(c, ev.delta, o)
    ELSE IF ev.control_id = button_local_dimming
    THEN handle_local_dimming_button(c, o)
    ELSE IF ev.control_id = button_hdr
    THEN handle_hdr_button(c)
    ELSE [c EXCEPT !.notes = Append(@, "unmapped")]

\* ControlMapper.handle_event (the second definition, which replaces the first)
handle_event(c, ev, o) ==
    IF ev.control_type = "knob"
    THEN IF ev.control_id = knob_brightness
         THEN handle_brightness_knob(c, ev.delta, o)
         ELSE IF ev.control_id = knob_night_mode
              THEN handle_night_mode_knob(c, ev.delta, o)
              ELSE [c EXCEPT !.notes = Append(@, "unmapped knob")]
    ELSE IF ev.control_id = button_local_dimming
         THEN handle_local_dimming_button(c, o)
         ELSE IF ev.control_id = button_hdr
              THEN handle_hdr_button(c)
              ELSE [c EXCEPT !.notes = Append(@, "unmapped button")]

\* ControlMapper._update_leds
update_leds(c) ==
    ButtonLed(
        ButtonLed(
            LedRing(
                LedRing(c, knob_brightness, led_pos(c.brightness.position)),
                knob_night_mode, led_pos(c.night_mode.position)),
            button_local_dimming, c.local_dimming_enabled),
        button_hdr, c.hdr_enabled)

\* step 1 storing the value read as it is, without VirtualKnob.set's clamp
init_brightness_unclamped(c, o) ==
    LET r == Called(c, "get_brightness", 0, get_brightness(c.d, o.rb))
        got == get_brightness(c.d, o.rb).ret
    IN  IF r.raised \/ got = << >> THEN r
        ELSE [r EXCEPT !.brightness.position = got[1]]

\* initialize(), step 1: the brightness knob from the display
init_brightness(c, o) ==
    LET r == Called(c, "get_brightness", 0, get_brightness(c.d, o.rb))
        got == get_brightness(c.d, o.rb).ret
    IN  IF r.raised \/ got = << >> THEN r
        ELSE [r EXCEPT !.brightness = set(c.brightness, got[1]).knob]

\* step 2 reading the display whatever the startup-calibration policy says
init_night_mode_reads_device(c, calibrated, o) ==
    IF c.raised THEN c
    ELSE LET r == Called(c, "get_blue_gain", 0, get_blue_gain(c.d, o.rg))
             got == get_blue_gain(c.d, o.rg).ret
         IN  IF r.raised \/ got = << >> THEN r
             ELSE [r EXCEPT !.night_mode = set(c.night_mode, got[1]).knob,
                            !.current_night_mode_step = get_night_mode_step(got[1])]

\* initialize(), step 2: night mode, by the startup-calibration policy
init_night_mode(c, calibrated, o) ==
    IF c.raised THEN c
    ELSE IF calibrated
    THEN LET c1 == [c EXCEPT !.night_mode = set(c.night_mode, 100).knob]
             w == Called(c1, "set_night_mode", 100, set_night_mode(c1.d, 100, o.k))
         IN  IF w.raised THEN w
             ELSE [w EXCEPT !.current_night_mode_step = 100]
    ELSE LET r == Called(c, "get_blue_gain", 0, get_blue_gain(c.d, o.rg))
             got == get_blue_gain(c.d, o.rg).ret
         IN  IF r.raised \/ got = << >> THEN r
             ELSE [r EXCEPT !.night_mode = set(c.night_mode, got[1]).knob,
                            !.current_night_mode_step = get_night_mode_step(got[1])]

\* step 3 defaulting the flag without writing the default to the display
init_local_dimming_no_default_write(c, o) ==
    IF c.raised THEN c
    ELSE LET r == Called(c, "get_local_dimming", 0, get_local_dimming(c.d, o.rd))
             got == get_local_dimming(c.d, o.rd).ret
         IN  IF r.raised THEN r
             ELSE IF got # << >>
                  THEN [r EXCEPT !.local_dimming_enabled = got[1]]
                  ELSE [r EXCEPT !.local_dimming_enabled = TRUE]

\* initialize(), step 3: local dimming, forced on when it cannot be read
init_local_dimming(c, o) ==
    IF c.raised THEN c
    ELSE LET r == Called(c, "get_local_dimming", 0, get_local_dimming(c.d, o.rd))
             got == get_local_dimming(c.d, o.rd).ret
         IN  IF r.raised THEN r
             ELSE IF got # << >>
                  THEN [r EXCEPT !.local_dimming_enabled = got[1]]
                  ELSE LET r1 == [r EXCEPT !.local_dimming_enabled = TRUE]
                       IN  Called(r1, "set_local_dimming", TRUE,
                                  set_local_dimming(r1.d, TRUE, o.ok))

\* initialize pushing the LEDs before the local-dimming step
initialize_leds_before_local_dimming(c, calibrated, o) ==
    LET c2 == init_night_mode(init_brightness(c, o), calibrated, o)
    IN  IF c2.raised THEN c2 ELSE init_local_dimming(update_leds(c2), o)

\* ControlMapper.initialize
initialize(c, calibrated, o) ==
    LET c3 == init_local_dimming(
                  init_night_mode(init_brightness(c, o), calibrated, o), o)
    IN  IF c3.raised THEN c3 ELSE update_leds(c3)

----------------------------------------------------------------------------
(* midi_handler.py: read_event *)

\* a message from the port
Msg(type, id, value) == [type |-> type, id |-> id, value |-> value]

\* MIDIHandler.read_event on the message received: the dict after it and the
\* MIDIEvent returned, <<event>>, or << >> for None
read_event(prev_values, sensitivity, msg) ==
    IF msg.type = "control_change"
    THEN LET r == calculate_absolute_delta(prev_values, sensitivity, msg.id, msg.value)
         IN  [prev |-> r.prev, first |-> r.first,
              event |-> <<[control_type |-> "knob", control_id |-> msg.id,
                           value |-> msg.value, delta |-> r.ret]>>]
    ELSE IF msg.type = "note_on" /\ msg.value > 0
    THEN [prev |-> prev_values, first |-> FALSE,
          event |-> <<[control_type |-> "button", control_id |-> msg.id,
                       value |-> msg.value, delta |-> 0]>>]
    ELSE [prev |-> prev_values, first |-> FALSE, event |-> << >>]

----------------------------------------------------------------------------
(* main.py: the session *)

\* a brightness register above 100, as a display whose maximum is higher reports
OverBrightness == 120

\* the display as main() may find it
DeviceStates ==
    {[FactoryVcp EXCEPT !.brightness = 40, !.blue_gain = b, !.local_dimming = ld] :
        b \in {80, 100}, ld \in {0, 1}}
    \cup {[FactoryVcp EXCEPT !.brightness = OverBrightness]}

\* a control id and a note that no function is mapped to
UnmappedKnob == 3
UnmappedButton == button_crosshair

BrightnessSamples == {0, 30}
NightModeSamples == {0, 5, 10, 70}

\* the messages inport.receive() may return
Messages ==
    {Msg("control_change", knob_brightness, v) : v \in BrightnessSamples}
    \cup {Msg("control_change", knob_night_mode, v) : v \in NightModeSamples}
    \cup {Msg("control_change", UnmappedKnob, 0)}
    \cup {Msg("note_on", n, 127) :
            n \in {button_local_dimming, button_hdr, UnmappedButton, knob_brightness}}
    \cup {Msg("note_on", button_local_dimming, 0),
          Msg("note_off", button_local_dimming, 0),
          Msg("pitchwheel", 0, 0)}

\* a night-mode write in a session: it fails after the red gain, or succeeds
NightModeOutcomes == {1, 3}

NoFault == [b |-> [w1 |-> TRUE, n |-> 1, w2 |-> TRUE], k |-> 3, ok |-> TRUE,
            rb |-> TRUE, rg |-> TRUE, rd |-> TRUE]

\* what the display may do while msg is handled: only the driver call its
\* handler makes can fail
OutcomesFor(msg) ==
    IF msg.type = "control_change" /\ msg.id = knob_brightness
    THEN {[NoFault EXCEPT !.b = bo] : bo \in BrightnessOutcomes}
    ELSE IF msg.type = "control_change" /\ msg.id = knob_night_mode
    THEN {[NoFault EXCEPT !.k = k] : k \in NightModeOutcomes}
    ELSE IF msg.type = "note_on" /\ msg.id = button_local_dimming
    THEN {[NoFault EXCEPT !.ok = ok] : ok \in BOOLEAN}
    ELSE {NoFault}

\* what the display may do during initialize(); the outcome of an access
\* that initialize() does not make is not drawn
InitOutcomes(calibrated) ==
    {o \in {[NoFault EXCEPT !.k = k, !.ok = ok, !.rb = rb, !.rg = rg, !.rd = rd] :
                k \in NightModeOutcomes, ok \in BOOLEAN, rb \in BOOLEAN,
                rg \in BOOLEAN, rd \in BOOLEAN} :
        /\ calibrated => o.rg
        /\ ~calibrated => o.k = 3
        /\ o.rd => o.ok}

Init ==
    /\ knob = BrightnessKnob
    /\ call = NoCall
    /\ MidiUnused
    /\ monitor_index \in MonitorIndexes
    /\ monitor = << >>
    /\ vcp \in DeviceStates
    /\ trace = << >>
    /\ always_start_calibrated \in BOOLEAN
    /\ brightness = BrightnessKnob
    /\ night_mode = NightModeKnob
    /\ local_dimming_enabled = TRUE
    /\ hdr_enabled = FALSE
    /\ current_night_mode_step = 100
    /\ pc = "start"
    /\ event = NoCall
    /\ nevents = 0
    /\ track = NoTrack
    /\ inport = "none"
    /\ tray = NoTray

\* the set_night_mode calls among the calls a handler made
NightModeWrites(calls) ==
    LET idx == {i \in DOMAIN calls : calls[i].op = "set_night_mode"}
    IN  [i \in 1..Cardinality(idx) |->
            calls[CHOOSE j \in idx : Cardinality({x \in idx : x <= j}) = i].arg]

\* strictly nearer to 75 than to any other level
NearestTo75(p) == Abs(p - 75) < Abs(p - 50) /\ Abs(p - 75) < Abs(p - 100)

\* follow the knob from the moment it stands at 80
Tracked(c) ==
    LET w == NightModeWrites(c.calls)
        last == IF w = << >> THEN track.last ELSE w[Len(w)]
    IN  IF track.active
        THEN [track EXCEPT !.writes = @ \o w,
                           !.inregion = @ /\ NearestTo75(c.night_mode.position),
                           !.thru75 = @ \/ c.night_mode.position = 75,
                           !.last = last]
        ELSE IF c.night_mode.position = 80
             THEN [active |-> TRUE, writes |-> << >>, inregion |-> TRUE,
                   thru75 |-> FALSE, last |-> last]
             ELSE [track EXCEPT !.last = last]

\* the mapper and the driver as a handler left them
Handled(c) ==
    /\ brightness' = c.brightness
    /\ night_mode' = c.night_mode
    /\ local_dimming_enabled' = c.local_dimming_enabled
    /\ hdr_enabled' = c.hdr_enabled
    /\ current_night_mode_step' = c.current_night_mode_step
    /\ monitor' = c.d.monitor
    /\ vcp' = c.d.vcp
    /\ trace' = c.d.trace
    /\ track' = Tracked(c)

\* a startup that goes on to the mapper although a connect() raised
Connect_proceeds_after_failure(midi_found, n) ==
    /\ pc = "start"
    /\ \E r \in {IF midi_found THEN connect(Drv, n) ELSE Raised(Drv)} :
           /\ monitor' = r.d.monitor
           /\ trace' = r.d.trace
    /\ pc' = "connected"
    /\ inport' = IF midi_found THEN "open" ELSE "none"
    /\ UNCHANGED <<knob, call, midiVars, loop, monitor_index, vcp, mapperVars,
                   always_start_calibrated, event, nevents, track, tray>>

\* main(): midi.connect() and monitor.connect()
Connect(midi_found, n) ==
    /\ pc = "start"
    /\ \E r \in {IF midi_found THEN connect(Drv, n) ELSE Raised(Drv)} :
           /\ monitor' = r.d.monitor
           /\ trace' = r.d.trace
           /\ pc' = IF r.raised THEN "exit1" ELSE "connected"
    /\ inport' = IF midi_found THEN "open" ELSE "none"
    /\ UNCHANGED <<knob, call, midiVars, loop, monitor_index, vcp, mapperVars,
                   always_start_calibrated, event, nevents, track, tray>>

\* TrayIcon.start(): running is set and the tray thread shows the menu
TrayStarted == [NoTray EXCEPT !.running = TRUE, !.at = "menu"]

\* main(): ControlMapper(midi, monitor, config), mapper.initialize() and
\* tray.start()
Initialize(o) ==
    /\ pc = "connected"
    /\ \E c \in {initialize(Ctx, always_start_calibrated, o)} :
           /\ Handled(c)
           /\ event' = [op |-> "initialize", calls |-> c.calls, leds |-> c.leds,
                        notes |-> c.notes, raised |-> c.raised]
           /\ pc' = IF c.raised THEN "exit1" ELSE "loop"
           /\ tray' = IF c.raised THEN tray ELSE TrayStarted
    /\ UNCHANGED <<knob, call, midiVars, loop, monitor_index,
                   always_start_calibrated, nevents, inport>>

\* main(): one turn of the event loop, midi.read_event() returning msg
Event(msg, o) ==
    /\ pc = "loop"
    /\ tray.running /\ ~tray.setup_requested
    /\ nevents < MaxEvents
    /\ \E re \in {read_event(knob_previous_values, knob_sensitivity, msg)} :
       \E c \in {IF re.event = << >> THEN Ctx ELSE handle_event(Ctx, re.event[1], o)} :
           /\ knob_previous_values' = re.prev
           /\ Handled(c)
           /\ event' = [op |-> "event", msg |-> msg, handled |-> re.event # << >>,
                        first |-> re.first,
                        delta |-> IF re.event = << >> THEN 0 ELSE re.event[1].delta,
                        old_brightness |-> brightness.position,
                        old_night_mode |-> night_mode.position,
                        old_step |-> current_night_mode_step,
                        old_local_dimming |-> local_dimming_enabled,
                        old_hdr |-> hdr_enabled,
                        calls |-> c.calls, leds |-> c.leds, notes |-> c.notes,
                        raised |-> c.raised]
           /\ pc' = IF c.raised THEN "exit1" ELSE "loop"
    /\ nevents' = nevents + 1
    /\ UNCHANGED <<knob, call, knob_sensitivity, loop, monitor_index,
                   always_start_calibrated, inport, tray>>

Next ==
    \/ \E midi_found \in BOOLEAN, n \in 0..MaxMonitors : Connect(midi_found, n)
    \/ \E o \in InitOutcomes(always_start_calibrated) : Initialize(o)
    \/ \E msg \in Messages : \E o \in OutcomesFor(msg) : Event(msg, o)

Spec == Init /\ [][Next]_vars

\* the display writes the mapper asked for while handling the last message
DisplayWrites ==
    {i \in DOMAIN event.calls :
        event.calls[i].op \in {"set_brightness", "set_night_mode", "set_local_dimming"}}

NightModeEvent ==
    /\ event.op = "event"
    /\ event.handled
    /\ event.msg.type = "control_change"
    /\ event.msg.id = knob_night_mode

\* C3: the first sample observed for a control id yields delta 0, and handling
\* it end to end issues no device write and changes no knob position.
C3_FirstObservationWritesNothing ==
    (event.op = "event" /\ event.first) =>
        /\ event.delta = 0
        /\ DisplayWrites = {}
        /\ brightness.position = event.old_brightness
        /\ night_mode.position = event.old_night_mode

\* C6: a night-mode knob event issues set_night_mode iff the quantized step
\* of the new position differs from the step committed before it, issues at
\* most one, and writes the quantized step of the final position.
C6_WriteIffStepChanged ==
    NightModeEvent =>
        LET w == NightModeWrites(event.calls)
            s == get_night_mode_step(night_mode.position)
        IN  /\ Len(w) <= 1
            /\ Len(w) = 1 <=> s # event.old_step
            /\ Len(w) = 1 => w[1] = s

\* one large delta that jumps over a level: one write, of the final step
C6_Witness ==
    /\ NightModeEvent
    /\ Len(NightModeWrites(event.calls)) = 1
    /\ Abs(event.old_step - get_night_mode_step(night_mode.position)) > 25

\* C7: from position 80, deltas that bring the knob to 70 while it stays in
\* the region nearest to 75 issue no night-mode write.
C7_NoWriteWithinStep ==
    (track.active /\ track.inregion /\ night_mode.position = 70) =>
        track.writes = << >>

\* the knob went from 80 to 70 inside the region
C7_Witness ==
    /\ track.active
    /\ track.inregion
    /\ night_mode.position = 70
    /\ NightModeEvent
    /\ event.delta < 0

C13_HandlersNeverRaise ==
    event.op = "event" => (~event.raised /\ pc = "loop")

\* the last message was a press of a button, handled by the mapper
Press(button_id) ==
    /\ event.op = "event"
    /\ event.handled
    /\ event.msg.type = "note_on"
    /\ event.msg.id = button_id

\* the only LED call of the last handler: set_button_led(button_id, state),
\* sent after n driver calls
OnlyButtonLed(button_id, state, n) ==
    event.leds = <<[kind |-> "button", id |-> button_id, value |-> state,
                    after |-> n]>>

\* C14: each local-dimming press flips local_dimming_enabled, issues exactly
\* one set_local_dimming call carrying the new boolean, and then sets the
\* button LED to the new boolean, whatever the device write did; the toggle is
\* never reverted.
C14_PressFlipsWritesLights ==
    Press(button_local_dimming) =>
        /\ local_dimming_enabled = ~event.old_local_dimming
        /\ Len(event.calls) = 1
        /\ event.calls[1].op = "set_local_dimming"
        /\ event.calls[1].arg = local_dimming_enabled
        /\ OnlyButtonLed(button_local_dimming, local_dimming_enabled, 1)

\* what holds of a local-dimming press: the flip and the one call always, the
\* LED after the call whenever the call returned, True or False
LocalDimmingPressWhenReturned ==
    Press(button_local_dimming) =>
        /\ local_dimming_enabled = ~event.old_local_dimming
        /\ Len(event.calls) = 1
        /\ event.calls[1].op = "set_local_dimming"
        /\ event.calls[1].arg = local_dimming_enabled
        /\ ~event.raised =>
              OnlyButtonLed(button_local_dimming, local_dimming_enabled, 1)
        /\ event.raised => event.leds = << >>

\* C15: each HDR press flips hdr_enabled (two presses from the initial state
\* pass through true and back to false), issues the corresponding device
\* write, and sets the HDR button LED to the new boolean.
C15_HdrPressFlips ==
    Press(button_hdr) =>
        /\ hdr_enabled = ~event.old_hdr
        /\ Len(event.calls) = 1
        /\ OnlyButtonLed(button_hdr, hdr_enabled, 1)

\* what holds of an HDR press: the flag is False after it, no driver call is
\* made, and the LED is switched off
HdrPressSwitchesOff ==
    Press(button_hdr) =>
        /\ hdr_enabled = FALSE
        /\ event.calls = << >>
        /\ OnlyButtonLed(button_hdr, FALSE, 0)

\* the last message was a turn of the brightness knob
BrightnessEvent ==
    /\ event.op = "event"
    /\ event.handled
    /\ event.msg.type = "control_change"
    /\ event.msg.id = knob_brightness

\* the only LED call of the last handler: set_led_ring(knob_id, the ring
\* position of p), sent after n driver calls
OnlyLedRing(knob_id, p, n) ==
    /\ (p * 11) \div 100 \in 0..11
    /\ event.leds = <<[kind |-> "ring", id |-> knob_id,
                       value |-> (p * 11) \div 100, after |-> n]>>

\* C16: every brightness knob event performs, in this order, adjust(delta),
\* exactly one set_brightness call carrying the new absolute position, and
\* one LED ring update with position floor(position x 11 / 100), in 0..11.
C16_AdjustWriteLed ==
    BrightnessEvent =>
        /\ brightness.position = Max2(0, Min2(100, event.old_brightness + event.delta))
        /\ Len(event.calls) = 1
        /\ event.calls[1].op = "set_brightness"
        /\ event.calls[1].arg = brightness.position
        /\ OnlyLedRing(knob_brightness, brightness.position, 1)

\* what holds of a brightness knob event: the adjust and the one call always,
\* the LED ring after the call whenever the call returned
BrightnessEventWhenReturned ==
    BrightnessEvent =>
        /\ brightness.position = Max2(0, Min2(100, event.old_brightness + event.delta))
        /\ Len(event.calls) = 1
        /\ event.calls[1].op = "set_brightness"
        /\ event.calls[1].arg = brightness.position
        /\ ~event.raised => OnlyLedRing(knob_brightness, brightness.position, 1)
        /\ event.raised => event.leds = << >>

\* C17: every night-mode knob event emits exactly one LED ring update, of
\* floor(position x 11 / 100) for the unquantized position, whether or not a
\* device write fired and whether or not that write succeeded.
C17_LedRingEveryTick ==
    NightModeEvent =>
        OnlyLedRing(knob_night_mode, night_mode.position, Len(event.calls))

\* what holds of a night-mode knob event: the LED ring follows the
\* unquantized position whenever no write fired or the write returned
NightModeEventWhenReturned ==
    NightModeEvent =>
        /\ ~event.raised =>
              OnlyLedRing(knob_night_mode, night_mode.position, Len(event.calls))
        /\ event.raised => event.leds = << >>

\* initialize() has just run
Initialized == event.op = "initialize"

\* the calls of op among the driver calls of the last handler
CallsOf(op) == {i \in DOMAIN event.calls : event.calls[i].op = op}

\* C18: if get_local_dimming() returns None during initialize(), then after
\* it local_dimming_enabled is true and exactly one set_local_dimming(True)
\* was issued, after the read; if the read succeeds, the flag mirrors the
\* register read and no set_local_dimming is issued.
C18_LocalDimmingDefault ==
    Initialized =>
        /\ Cardinality(CallsOf("get_local_dimming")) = 1
        /\ \A i \in CallsOf("get_local_dimming") :
              IF event.calls[i].ret = << >>
              THEN /\ local_dimming_enabled = TRUE
                   /\ Cardinality(CallsOf("set_local_dimming")) = 1
                   /\ \A j \in CallsOf("set_local_dimming") :
                         j > i /\ event.calls[j].arg = TRUE
              ELSE /\ local_dimming_enabled = event.calls[i].ret[1]
                   /\ local_dimming_enabled = (vcp.local_dimming # 0)
                   /\ CallsOf("set_local_dimming") = {}

\* the read failed with local dimming off on the display, and the write of
\* the default failed too: the flag is on all the same
C18_Witness ==
    /\ Initialized
    /\ \E i \in CallsOf("get_local_dimming") : event.calls[i].ret = << >>
    /\ \E j \in CallsOf("set_local_dimming") : event.calls[j].ret = FALSE
    /\ vcp.local_dimming = 0
    /\ local_dimming_enabled

\* C19: with always_start_calibrated set, initialize() leaves the night-mode
\* knob at 100 and the committed step at 100 and issues set_night_mode(100),
\* without reading the display's blue gain.
C19_StartCalibrated ==
    (Initialized /\ always_start_calibrated) =>
        /\ night_mode.position = 100
        /\ current_night_mode_step = 100
        /\ Cardinality(CallsOf("set_night_mode")) = 1
        /\ \A i \in CallsOf("set_night_mode") : event.calls[i].arg = 100
        /\ CallsOf("get_blue_gain") = {}

\* started calibrated on a display whose blue gain is 80 and stayed 80, the
\* write having failed before the blue register
C19_Witness ==
    /\ Initialized
    /\ always_start_calibrated
    /\ vcp.blue_gain = 80
    /\ night_mode.position = 100
    /\ \E i \in CallsOf("set_night_mode") : event.calls[i].ret = FALSE

\* the blue gain that initialize() read, <<b>>, or << >> when it read none
BlueGainRead ==
    IF CallsOf("get_blue_gain") = {} THEN << >>
    ELSE event.calls[CHOOSE i \in CallsOf("get_blue_gain") : TRUE].ret

\* C20: with always_start_calibrated not set and the blue gain b readable,
\* initialize() sets the night-mode knob to the level of {0,25,50,75,100}
\* nearest to b (ties to the lower), so that after it the knob position is one
\* of the five levels and equals the committed step.
C20_KnobAtNearestStep ==
    (Initialized /\ ~always_start_calibrated /\ BlueGainRead # << >>) =>
        /\ night_mode.position = get_night_mode_step(BlueGainRead[1])
        /\ night_mode.position \in StepSet
        /\ night_mode.position = current_night_mode_step

\* what holds after initialize() read the blue gain b: the knob stands at b
\* itself and only the committed step is the nearest level
InitKnobAtBlueGain ==
    (Initialized /\ ~always_start_calibrated /\ BlueGainRead # << >>) =>
        /\ night_mode.position = Max2(0, Min2(100, BlueGainRead[1]))
        /\ current_night_mode_step = get_night_mode_step(BlueGainRead[1])

\* what get_brightness() returned to initialize(): <<v>>, or << >> for None
BrightnessRead ==
    event.calls[CHOOSE i \in CallsOf("get_brightness") : TRUE].ret

\* C21: initialize() seeds the brightness knob from the display: when
\* get_brightness() returns v the knob position becomes clamp(v, 0, 100); when
\* the read fails the position stays at its default, 75; and initialize()
\* issues no brightness write.
C21_BrightnessSeeded ==
    Initialized =>
        /\ Cardinality(CallsOf("get_brightness")) = 1
        /\ BrightnessRead # << >> =>
              brightness.position = Max2(0, Min2(100, BrightnessRead[1]))
        /\ BrightnessRead = << >> => brightness.position = 75
        /\ CallsOf("set_brightness") = {}
        /\ \A i \in DOMAIN trace :
              trace[i].e = "write" => trace[i].code # "brightness"

\* the display reported 120 and the knob stands at 100
C21_Witness ==
    /\ Initialized
    /\ BrightnessRead = <<OverBrightness>>
    /\ brightness.position = 100
    /\ vcp.brightness = OverBrightness

\* C22: initialize() pushes the LED state only after its three resync steps,
\* and the four LED messages (brightness ring, night-mode ring, local-dimming
\* button, HDR button, in this order) carry the brightness and night-mode
\* positions, as ring positions floor(position x 11 / 100), and the two
\* booleans as they stand at the end of initialize().
C22_LedsAfterResync ==
    Initialized =>
        LET n == Len(event.calls)
        IN  /\ CallsOf("get_brightness") # {}
            /\ CallsOf("set_night_mode") \cup CallsOf("get_blue_gain") # {}
            /\ CallsOf("get_local_dimming") # {}
            /\ event.leds =
                  <<[kind |-> "ring", id |-> knob_brightness,
                     value |-> (brightness.position * 11) \div 100, after |-> n],
                    [kind |-> "ring", id |-> knob_night_mode,
                     value |-> (night_mode.position * 11) \div 100, after |-> n],
                    [kind |-> "button", id |-> button_local_dimming,
                     value |-> local_dimming_enabled, after |-> n],
                    [kind |-> "button", id |-> button_hdr,
                     value |-> hdr_enabled, after |-> n]>>

\* every step changed what the constructor had set: brightness 40, night mode
\* 80, local dimming off
C22_Witness ==
    /\ Initialized
    /\ brightness.position = 40
    /\ night_mode.position = 80
    /\ ~local_dimming_enabled
    /\ Len(event.leds) = 4

\* the last message became an event whose (kind, id) no handler is mapped to
UnmappedEvent ==
    /\ event.op = "event"
    /\ event.handled
    /\ IF event.msg.type = "control_change"
       THEN event.msg.id \notin {knob_brightness, knob_night_mode}
       ELSE event.msg.id \notin {button_local_dimming, button_hdr}

\* C23: an event whose (kind, id) matches no configured control is dropped:
\* handle_event raises nothing, no knob position, toggle boolean or committed
\* step changes, no display operation is made and no LED message is sent.
C23_UnmappedDropped ==
    UnmappedEvent =>
        /\ ~event.raised
        /\ pc = "loop"
        /\ brightness.position = event.old_brightness
        /\ night_mode.position = event.old_night_mode
        /\ local_dimming_enabled = event.old_local_dimming
        /\ hdr_enabled = event.old_hdr
        /\ current_night_mode_step = event.old_step
        /\ event.calls = << >>
        /\ trace = << >>
        /\ event.leds = << >>

\* a note carrying the brightness knob's id, received while the driver has no
\* monitor handle: dropped all the same
C23_Witness ==
    /\ UnmappedEvent
    /\ event.msg.type = "note_on"
    /\ event.msg.id = knob_brightness
    /\ monitor = << >>
    /\ event.notes = <<"unmapped button">>

----------------------------------------------------------------------------
(* main.py and tray_icon.py: the worker loop and the tray thread *)

\* the messages inport.receive() returns while the tray is watched
TrayMessages ==
    {Msg("control_change", knob_brightness, 0),
     Msg("control_change", knob_brightness, 10),
     Msg("note_on", button_local_dimming, 127),
     Msg("pitchwheel", 0, 0)}

\* the configuration the tray is watched under: the first display, its
\* colour and local dimming as the factory leaves them
InitTray ==
    /\ Init
    /\ monitor_index = 0
    /\ vcp = [FactoryVcp EXCEPT !.brightness = 40]
    /\ always_start_calibrated

\* main(): while tray.running: if setup_requested[0]: break
WorkerCheck ==
    /\ pc = "loop"
    /\ pc' = IF tray.running /\ ~tray.setup_requested THEN "receive" ELSE "after_loop"
    /\ UNCHANGED <<knob, call, midiVars, loop, drvVars, mapperVars,
                   always_start_calibrated, event, nevents, track, inport, tray>>

\* main(): event = midi.read_event(); receive() on a port that was closed
\* raises, and main() returns 1
WorkerReceive(msg) ==
    /\ pc = "receive"
    /\ nevents < MaxEvents
    /\ IF inport = "open"
       THEN \E re \in {read_event(knob_previous_values, knob_sensitivity, msg)} :
                /\ knob_previous_values' = re.prev
                /\ event' = [op |-> "received", msg |-> msg, ev |-> re.event]
                /\ pc' = IF re.event = << >> THEN "loop" ELSE "handle"
                /\ nevents' = nevents + 1
       ELSE /\ pc' = "exit1"
            /\ UNCHANGED <<knob_previous_values, event, nevents>>
    /\ UNCHANGED <<knob, call, knob_sensitivity, loop, drvVars, mapperVars,
                   always_start_calibrated, track, inport, tray>>

\* main(): mapper.handle_event(event), the worker being inside the call since
\* WorkerReceive; the LED message that ends a handler raises when the tray
\* thread has closed the ports
WorkerHandle ==
    /\ pc = "handle"
    /\ \E o \in OutcomesFor(event.msg) :
       \E c \in {handle_event(Ctx, event.ev[1], o)} :
       \E raised \in {c.raised \/ (inport # "open" /\ c.leds # << >>)} :
           /\ Handled(c)
           /\ event' = [op |-> "handled", msg |-> event.msg, calls |-> c.calls,
                        leds |-> c.leds, notes |-> c.notes, raised |-> raised]
           /\ pc' = IF raised THEN "exit1" ELSE "loop"
    /\ tray' = [tray EXCEPT !.after = IF tray.clicked = "none" THEN 0 ELSE @ + 1]
    /\ UNCHANGED <<knob, call, midiVars, loop, monitor_index,
                   always_start_calibrated, nevents, inport>>

\* main(): after the loop; a requested setup runs cleanup_connections() on
\* the worker, and main() returns 0
WorkerLeave ==
    /\ pc = "after_loop"
    /\ pc' = "exit0"
    /\ inport' = IF tray.setup_requested THEN "closed" ELSE inport
    /\ monitor' = IF tray.setup_requested THEN << >> ELSE monitor
    /\ tray' = [tray EXCEPT !.cleaned = tray.setup_requested]
    /\ UNCHANGED <<knob, call, midiVars, loop, monitor_index, vcp, trace,
                   mapperVars, always_start_calibrated, event, nevents, track>>

\* the process lives and the tray thread is at position at
TrayAt(at) ==
    /\ pc \notin {"exit0", "exit1"}
    /\ tray.at = at

\* the tray thread leaves every variable but tray, inport and monitor alone
TrayLeaves ==
    UNCHANGED <<knob, call, midiVars, loop, monitor_index, vcp, trace,
                mapperVars, always_start_calibrated, pc, event, nevents, track>>

\* TrayIcon._on_setup -> request_setup(): setup_requested[0] = True
TrayClickSetup ==
    /\ TrayAt("menu")
    /\ tray' = [tray EXCEPT !.setup_requested = TRUE, !.clicked = "setup",
                            !.at = "setup"]
    /\ UNCHANGED <<inport, monitor>>
    /\ TrayLeaves

\* request_setup(): tray.running = False
TraySetupStop ==
    /\ TrayAt("setup")
    /\ tray' = [tray EXCEPT !.running = FALSE, !.at = "menu"]
    /\ UNCHANGED <<inport, monitor>>
    /\ TrayLeaves

\* TrayIcon._on_exit: running = False and icon.stop(), then on_exit_callback
\* = cleanup_and_exit is entered on the tray thread
TrayClickExit ==
    /\ TrayAt("menu")
    /\ tray' = [tray EXCEPT !.running = FALSE, !.clicked = "exit",
                            !.at = "exit_midi"]
    /\ UNCHANGED <<inport, monitor>>
    /\ TrayLeaves

\* cleanup_and_exit() -> cleanup_connections(): midi.disconnect(); midi = None
TrayExitMidi ==
    /\ TrayAt("exit_midi")
    /\ inport' = "closed"
    /\ tray' = [tray EXCEPT !.closed_midi = TRUE,
                            !.during_handle = @ \/ pc = "handle",
                            !.at = "exit_display"]
    /\ UNCHANGED monitor
    /\ TrayLeaves

\* cleanup_connections(): monitor.disconnect(); monitor = None, then
\* tray.stop() and sys.exit(0), which ends the tray thread only
TrayExitDisplay ==
    /\ TrayAt("exit_display")
    /\ monitor' = << >>
    /\ tray' = [tray EXCEPT !.closed_display = TRUE,
                            !.during_handle = @ \/ pc = "handle",
                            !.at = "done"]
    /\ UNCHANGED inport
    /\ TrayLeaves

NextTray ==
    \/ Connect(TRUE, 1)
    \/ \E o \in InitOutcomes(always_start_calibrated) : Initialize(o)
    \/ WorkerCheck
    \/ \E msg \in TrayMessages : WorkerReceive(msg)
    \/ WorkerHandle
    \/ WorkerLeave
    \/ TrayClickSetup
    \/ TraySetupStop
    \/ TrayClickExit
    \/ TrayExitMidi
    \/ TrayExitDisplay

SpecTray == InitTray /\ [][NextTray]_vars

\* C30: the tray thread reaches the worker only through the stop/reconfigure
\* flag: it never disconnects the MIDI transport or the display itself, and
\* so no disconnect falls inside a handle_event in progress on the worker
C30_TrayOnlySetsFlag ==
    /\ ~tray.closed_midi
    /\ ~tray.closed_display
    /\ ~tray.during_handle

\* what holds of the reconfigure request: as long as Exit was not chosen, the
\* tray thread only sets the flag, and the devices are disconnected by no
\* one before the worker has left its loop
SetupRequestOnlySetsFlag ==
    tray.clicked # "exit" =>
        /\ ~tray.closed_midi /\ ~tray.closed_display
        /\ pc \in {"loop", "receive", "handle"} => inport = "open"

\* what holds of the loop: it is left for the code after it only from the
\* check at its head
LoopLeftAtCheck ==
    [][pc' = "after_loop" => pc \in {"loop", "after_loop"}]_vars

\* a menu item was chosen: setup_requested is set or tray.running is cleared
Signalled == tray.clicked # "none"

\* C31: once the tray thread has signalled, the worker handles at most one
\* further event before it leaves the loop, and when it has left the loop on
\* a reconfiguration request it has run the connection cleanup
C31_SignalSeenWithinOneEvent ==
    /\ tray.after <= 1
    /\ tray.setup_requested /\ pc \in {"exit0", "exit1"} => tray.cleaned

\* what holds of the latency: at most one further event is handled after the
\* signal
AtMostOneFurtherEvent == tray.after <= 1

\* what holds when main() returns 0 on a reconfiguration request: the worker
\* has run the cleanup and both devices are disconnected
CleanupWhenReturned ==
    tray.setup_requested /\ pc = "exit0" =>
        tray.cleaned /\ inport = "closed" /\ monitor = << >>

\* what holds of the progress: the first loop check a signalled worker makes
\* takes it out of the loop, so it is out as soon as the receive it may be
\* blocked in returns and its event is handled
SignalledCheckLeaves ==
    [][Signalled /\ pc = "loop" /\ pc' # pc => pc' = "after_loop"]_vars

----------------------------------------------------------------------------
(* monitor_controller.py: connect() under every configured index *)

\* Config.monitor_index as the configuration file may give it
ConnIndexes == (0 - 3)..2

\* the number of displays get_monitors() may list
Displays == 0..(MaxMonitors + 1)

InitConn ==
    /\ knob = BrightnessKnob
    /\ call = NoCall
    /\ MidiUnused
    /\ monitor_index \in ConnIndexes
    /\ monitor = << >>
    /\ vcp \in DeviceStates
    /\ trace = << >>
    /\ SessionUnused

\* connect() where the program calls it on a driver that is not connected:
\* main() at startup
ConnConnect(n) ==
    /\ monitor = << >>
    /\ DrvConnect(n)

\* connect() where the program calls it on a driver that may be connected:
\* reconnect(), after its disconnect()
ConnReconnect(n) == DrvCalled("reconnect", n, reconnect(Drv, n))

NextConn ==
    \/ \E n \in Displays : ConnConnect(n)
    \/ \E n \in Displays : ConnReconnect(n)
    \/ DrvDisconnect

SpecConn == InitConn /\ [][NextConn]_vars

\* connect() has just been run, by itself or at the end of reconnect()
ConnectCall == call.op \in {"connect", "reconnect"}

\* C32: connect() fails whenever no display is listed or the configured index
\* is not one of 0..n-1, negative indexes included, and leaves the driver
\* disconnected; otherwise it selects the display at the configured index
C32_ConnectByIndex ==
    ConnectCall =>
        IF call.arg = 0 \/ monitor_index \notin 0..(call.arg - 1)
        THEN call.raised /\ monitor = << >>
        ELSE ~call.raised /\ monitor = <<monitor_index>>

\* what holds of connect(): an index that is not negative is treated as
\* C32 says
ConnectNonNegativeIndex ==
    ConnectCall /\ monitor_index >= 0 =>
        IF call.arg = 0 \/ monitor_index >= call.arg
        THEN call.raised /\ monitor = << >>
        ELSE ~call.raised /\ monitor = <<monitor_index>>

\* what holds of connect(): a negative index counts from the end of the
\* list, and fails only below its start
ConnectNegativeIndex ==
    ConnectCall /\ monitor_index < 0 =>
        IF monitor_index < 0 - call.arg
        THEN call.raised /\ monitor = << >>
        ELSE ~call.raised /\ monitor = <<call.arg + monitor_index>>

----------------------------------------------------------------------------
(* main.py: a device that is not found at startup *)

\* midi.connect() or monitor.connect() raised at startup: no port was opened,
\* or all the driver did was a connect() that failed
StartupFailed ==
    /\ pc # "start"
    /\ \/ inport = "none"
       \/ trace = <<Ev("connect", "", 0, FALSE)>>

\* nothing was done after the failure: initialize() was not run, no message
\* was read or handled, the mapper is as constructed, no register was
\* written, and main() returned 1
SessionNotBegun ==
    /\ pc = "exit1"
    /\ event = NoCall
    /\ nevents = 0
    /\ knob_previous_values = << >>
    /\ brightness = BrightnessKnob /\ night_mode = NightModeKnob
    /\ monitor = << >>
    /\ Steps("write") = {} /\ Steps("read") = {}
    /\ tray = NoTray

\* C33: when the MIDI transport or the display is not found at startup the
\* session does not proceed: initialize() is never run, no event is read or
\* handled, no display write is issued, and main() returns a failure status
C33_StartupFailureFatal ==
    [](StartupFailed => SessionNotBegun) /\ [][~StartupFailed]_vars

C33_Witness ==
    /\ StartupFailed
    /\ inport = "open"
    /\ pc = "exit1"

----------------------------------------------------------------------------
(* control_mapper.py: the 'calibrated' notification of the night-mode knob *)

\* the last event raised the notification
Notified == \E i \in DOMAIN event.notes : event.notes[i] = "calibrated"

\* the last event turned the night-mode knob past its top: after adjust the
\* position is 100 and hit_limit is true
HitTop ==
    /\ night_mode.position = 100
    /\ event.delta # 0
    /\ event.old_night_mode + event.delta # 100

\* C34: a night-mode knob event raises the 'now calibrated' notification
\* exactly when, after adjust, the position is 100 and hit_limit is true,
\* whether or not a step write fired
C34_NotifiedAtHardStop ==
    NightModeEvent => (Notified <=> HitTop)

\* what holds of a night-mode knob event whose handler returned
NotifiedWhenReturned ==
    NightModeEvent =>
        /\ ~event.raised => (Notified <=> HitTop)
        /\ event.raised => ~Notified

----------------------------------------------------------------------------
(* midi_handler.py: the encoder history over several controls *)

\* the controls that send control_change messages
HistIds == {knob_brightness, knob_night_mode, UnmappedKnob}

\* samples at the ends and in the middle of the domain
HistSamples == {0, 1, HalfR, R - 1}

NextHist ==
    \E control_id \in HistIds, current_value \in HistSamples :
        /\ call.op = "delta" => call.n <= MaxObs
        /\ Observe(control_id, current_value)
        /\ UNCHANGED loop

SpecHist == InitEnc /\ [][NextHist]_vars

\* one observation, of sample call'.current for control call'.id: the key is
\* new exactly on the first observation of the control, no key is lost, the
\* sample becomes the baseline of the control, the other baselines stay, and
\* the sample the baseline already held gives delta 0
HistoryStep ==
    /\ call'.op = "delta"
    /\ DOMAIN knob_previous_values' = DOMAIN knob_previous_values \cup {call'.id}
    /\ call'.first <=> call'.id \notin DOMAIN knob_previous_values
    /\ knob_previous_values'[call'.id] = call'.current
    /\ \A other \in DOMAIN knob_previous_values \ {call'.id} :
           knob_previous_values'[other] = knob_previous_values[other]
    /\ (call'.id \in DOMAIN knob_previous_values
            /\ knob_previous_values[call'.id] = call'.current) => call'.ret = 0

\* C35: the encoder history gains a key only on the first observation of a
\* control id and never loses one; every observation stores the sample as the
\* baseline of its id and leaves every other baseline unchanged, so the same
\* sample delivered again gives delta 0
C35_HistoryGrowsLazily == [][HistoryStep]_vars

C35_Witness ==
    /\ call.op = "delta"
    /\ ~call.first
    /\ call.current = call.previous
    /\ call.ret = 0
    /\ Cardinality(DOMAIN knob_previous_values) >= 2

----------------------------------------------------------------------------
(* control_mapper.py: the committed night-mode step between events *)

\* main() is between events, or has not read one yet
BetweenEvents == pc \in {"start", "connected", "loop"}

\* the display does not hold the colour of the committed step: a step write
\* failed, or the step was committed without a write
DisplayBehindStep == vcp.blue_gain # 20 + TruncDiv(current_night_mode_step * 80, 100)

\* C36: between events, after construction, after initialize() and after any
\* handled events, current_night_mode_step is the nearest level of the
\* night-mode knob position whether or not the step writes succeeded; so a
\* night-mode event that stays in the committed step issues no write, and a
\* failed step write is not issued again
C36_StepFollowsKnob ==
    /\ BetweenEvents =>
          current_night_mode_step = get_night_mode_step(night_mode.position)
    /\ (NightModeEvent /\ get_night_mode_step(night_mode.position) = event.old_step) =>
          NightModeWrites(event.calls) = << >>

\* the step was committed while its write failed, and a later turn of the
\* knob inside the step wrote nothing
C36_Witness ==
    /\ pc = "loop"
    /\ NightModeEvent
    /\ event.delta # 0
    /\ event.calls = << >>
    /\ DisplayBehindStep
    /\ current_night_mode_step = get_night_mode_step(night_mode.position)

----------------------------------------------------------------------------
(* control_mapper.py: the intensities passed to set_night_mode in a session *)

\* the step just taken ran initialize() or handled a message; what it passed
\* to set_night_mode is one of the five levels, it passed at most one
\* intensity, and not the one the call before it in the session carried
NightModeCallsDiffer ==
    event'.op \in {"initialize", "event"} =>
        LET w == NightModeWrites(event'.calls)
        IN  /\ \A i \in DOMAIN w : w[i] \in StepSet
            /\ Len(w) <= 1
            /\ w # << >> => w[1] # track.last

\* C37: over a whole session, initialize() followed by any events, every
\* intensity passed to set_night_mode is one of 0, 25, 50, 75, 100 and no
\* two consecutive set_night_mode calls carry the same intensity
C37_StepsOnlyNeverRepeated ==
    [](track.last \in StepSet \cup {0 - 1}) /\ [][NightModeCallsDiffer]_vars

\* initialize() passed 100 and a later event passed another level
C37_Witness ==
    /\ always_start_calibrated
    /\ NightModeEvent
    /\ NightModeWrites(event.calls) # << >>
    /\ track.last \in StepSet \ {100}

----------------------------------------------------------------------------
(* control_mapper.py and monitor_controller.py: the night-mode step over a *)
(* restart with always_start_calibrated not set                           *)

\* the turns of the night-mode knob that reach every level from every level
RestartDeltas == {0 - 100, 0 - 75, 0 - 50, 0 - 25, 25, 100}

\* the program started, both devices found; call keeps the step committed
\* in the run before and whether its write succeeded
InitRestart ==
    /\ knob = BrightnessKnob
    /\ call = NoCall
    /\ MidiUnused
    /\ monitor_index = 0
    /\ monitor = <<0>>
    /\ vcp \in DeviceStates
    /\ trace = << >>
    /\ always_start_calibrated = FALSE
    /\ brightness = BrightnessKnob
    /\ night_mode = NightModeKnob
    /\ local_dimming_enabled = TRUE
    /\ hdr_enabled = FALSE
    /\ current_night_mode_step = 100
    /\ pc = "connected"
    /\ event = NoCall
    /\ nevents = 0
    /\ track = NoTrack
    /\ inport = "open"
    /\ tray = NoTray

\* mapper.initialize() of the run that begins
RestartInit(o) ==
    /\ pc = "connected"
    /\ \E c \in {initialize(Ctx, always_start_calibrated, o)} :
           /\ Handled(c)
           /\ event' = [op |-> "initialize", calls |-> c.calls, leds |-> c.leds,
                        notes |-> c.notes, raised |-> c.raised]
           /\ pc' = IF c.raised THEN "exit1" ELSE "loop"
    /\ UNCHANGED <<knob, call, midiVars, loop, monitor_index,
                   always_start_calibrated, nevents, inport, tray>>

\* a turn of the night-mode knob, one of at most MaxEvents in a run; a step
\* it commits is kept in call with the outcome of its write
RestartCommit(delta, k) ==
    /\ pc = "loop"
    /\ nevents < MaxEvents
    /\ nevents' = nevents + 1
    /\ \E c \in {handle_night_mode_knob(Ctx, delta, [NoFault EXCEPT !.k = k])} :
           /\ Handled(c)
           /\ event' = [op |-> "knob", calls |-> c.calls, leds |-> c.leds,
                        notes |-> c.notes, raised |-> c.raised]
           /\ call' = IF c.calls = << >> THEN call
                      ELSE [op |-> "committed", step |-> c.current_night_mode_step,
                            ok |-> c.calls[1].ret]
           /\ pc' = IF c.raised THEN "exit1" ELSE "loop"
    /\ UNCHANGED <<knob, midiVars, loop, monitor_index,
                   always_start_calibrated, inport, tray>>

\* the program is stopped and started again: a mapper as constructed, the
\* display as the run before left it
RestartStop ==
    /\ pc = "loop"
    /\ pc' = "connected"
    /\ brightness' = BrightnessKnob
    /\ night_mode' = NightModeKnob
    /\ local_dimming_enabled' = TRUE
    /\ hdr_enabled' = FALSE
    /\ current_night_mode_step' = 100
    /\ event' = NoCall
    /\ trace' = << >>
    /\ track' = NoTrack
    /\ nevents' = 0
    /\ UNCHANGED <<knob, call, midiVars, loop, monitor_index, monitor, vcp,
                   always_start_calibrated, inport, tray>>

NextRestart ==
    \/ \E o \in InitOutcomes(always_start_calibrated) : RestartInit(o)
    \/ \E delta \in RestartDeltas, k \in NightModeOutcomes : RestartCommit(delta, k)
    \/ RestartStop

SpecRestart == InitRestart /\ [][NextRestart]_vars

\* initialize() has just read the blue gain in a run that follows one whose
\* last step write succeeded
Restarted ==
    /\ pc = "loop"
    /\ Initialized
    /\ call.op = "committed"
    /\ call.ok
    /\ BlueGainRead # << >>

\* C38: the night-mode step survives a restart: after a successful
\* set_night_mode(s) committed step s, an initialize() with
\* always_start_calibrated not set that reads the blue gain restores
\* current_night_mode_step = s
C38_StepSurvivesRestart ==
    Restarted => current_night_mode_step = call.step

\* what holds over a restart: the step restored is the level nearest to the
\* blue gain 20 + 80 s / 100 that set_night_mode(s) wrote, which is s for
\* the levels 50, 75 and 100 only
RestartRestoresNearestToBlue ==
    Restarted =>
        /\ current_night_mode_step =
              get_night_mode_step(20 + TruncDiv(call.step * 80, 100))
        /\ call.step \in {50, 75, 100} => current_night_mode_step = call.step
        /\ call.step = 25 => current_night_mode_step = 50
        /\ call.step = 0 => current_night_mode_step = 25

----------------------------------------------------------------------------
(* monitor_controller.py under the tray thread: set_brightness taken one  *)
(* access of self.monitor at a time, the Exit item disconnecting between   *)

\* the brightness knob messages the worker receives
ExitMessages ==
    {Msg("control_change", knob_brightness, 0),
     Msg("control_change", knob_brightness, 10)}

\* the driver with the steps of the call in progress
DrvInCall == [Drv EXCEPT !.trace = trace]

\* what the worker does not touch inside set_brightness
InCallLeaves ==
    UNCHANGED <<knob, call, midiVars, loop, monitor_index, night_mode,
                local_dimming_enabled, hdr_enabled, current_night_mode_step,
                always_start_calibrated, event, nevents, track, inport, tray>>

\* set_brightness has returned: the handler sends its LED message, which
\* raises on a closed port
AfterCall == IF inport = "open" THEN "loop" ELSE "exit1"

\* handle_brightness_knob: adjust, then set_brightness up to its test
\* 'if not self.monitor'
SetBrightnessEnter ==
    /\ pc = "handle"
    /\ brightness' = adjust(brightness, event.ev[1].delta).knob
    /\ pc' = IF monitor = << >> THEN "exit1" ELSE "write1"
    /\ trace' = << >>
    /\ UNCHANGED <<monitor, vcp>>
    /\ InCallLeaves

\* set_brightness: 'with self.monitor:' and the write; 'with None' raises
\* into the except branch as a failed write does
SetBrightnessWrite(ok) ==
    /\ pc = "write1"
    /\ \E d \in {IF monitor = << >> THEN DrvInCall
                 ELSE Session(DrvInCall, <<W("brightness", brightness.position)>>,
                              IF ok THEN 1 ELSE 0)} :
           /\ vcp' = d.vcp
           /\ trace' = d.trace
    /\ pc' = IF monitor # << >> /\ ok THEN AfterCall ELSE "reconnect"
    /\ UNCHANGED <<monitor, brightness>>
    /\ InCallLeaves

\* set_brightness: self.reconnect(), get_monitors() listing n displays
SetBrightnessReconnect(n) ==
    /\ pc = "reconnect"
    /\ \E r \in {reconnect(DrvInCall, n)} :
           /\ monitor' = r.d.monitor
           /\ trace' = r.d.trace
           /\ pc' = IF r.raised THEN AfterCall ELSE "write2"
    /\ UNCHANGED <<vcp, brightness>>
    /\ InCallLeaves

\* set_brightness: the retried write, after which the call returns
SetBrightnessRetry(ok) ==
    /\ pc = "write2"
    /\ \E d \in {IF monitor = << >> THEN DrvInCall
                 ELSE Session(DrvInCall, <<W("brightness", brightness.position)>>,
                              IF ok THEN 1 ELSE 0)} :
           /\ vcp' = d.vcp
           /\ trace' = d.trace
    /\ pc' = AfterCall
    /\ UNCHANGED <<monitor, brightness>>
    /\ InCallLeaves

NextExit ==
    \/ Connect(TRUE, 1)
    \/ Initialize(NoFault)
    \/ WorkerCheck
    \/ \E msg \in ExitMessages : WorkerReceive(msg)
    \/ SetBrightnessEnter
    \/ \E ok \in BOOLEAN : SetBrightnessWrite(ok)
    \/ \E n \in 0..MaxMonitors : SetBrightnessReconnect(n)
    \/ \E ok \in BOOLEAN : SetBrightnessRetry(ok)
    \/ WorkerLeave
    \/ TrayClickExit
    \/ TrayExitMidi
    \/ TrayExitDisplay

SpecExit == InitTray /\ [][NextExit]_vars

\* the steps the driver adds to those of the call in progress
NewSteps == {i \in DOMAIN trace' : i > Len(trace)}

\* once the exit path has disconnected the display, no step connects it or
\* opens a session
NoSessionAfterExit ==
    tray.closed_display =>
        \A i \in NewSteps : trace'[i].e \notin {"open", "connect"}

\* C39: after cleanup_connections(), run from the tray thread by the Exit
\* item, has disconnected the display, the display stays disconnected: no
\* interleaving with a worker inside a handler lets a MonitorController
\* operation reconnect it or open a further session
C39_ExitDisconnectIsFinal ==
    [](tray.closed_display => monitor = << >>) /\ [][NoSessionAfterExit]_vars

\* what holds when the disconnect does not fall inside a driver call: the
\* display stays disconnected, every later driver call raising at its
\* first test
ExitBetweenCallsIsFinal ==
    tray.closed_display => monitor = << >>

----------------------------------------------------------------------------
(* midi_handler.py: the LED messages *)

\* led_value = 64 + int((position / 11) * 63)
led_value(position) == 64 + TruncDiv(position * 63, 11)

\* MIDIHandler.outport: never opened (None), open, or closed by disconnect()
PortStates == {"none", "open", "closed"}

\* self.outport.send(msg): a closed port raises, an open one sends
send(outport, msg) ==
    IF outport = "open"
    THEN [sent |-> <<msg>>, raised |-> FALSE]
    ELSE [sent |-> << >>, raised |-> TRUE]

\* set_led_ring sending the position as passed
set_led_ring_no_clamp(outport, knob_id, position) ==
    IF outport = "none"
    THEN [sent |-> << >>, raised |-> FALSE]
    ELSE send(outport, [type |-> "control_change", control |-> knob_id,
                        value |-> led_value(position)])

\* MIDIHandler.set_led_ring: the messages sent on the output port, and
\* whether the call raised
set_led_ring(outport, knob_id, position) ==
    IF outport = "none"
    THEN [sent |-> << >>, raised |-> FALSE]
    ELSE send(outport, [type |-> "control_change", control |-> knob_id,
                        value |-> led_value(Max2(0, Min2(11, position)))])

\* MIDIHandler.set_button_led
set_button_led(outport, button_id, state) ==
    IF outport = "none"
    THEN [sent |-> << >>, raised |-> FALSE]
    ELSE send(outport, [type |-> "note_on", note |-> button_id,
                        velocity |-> IF state THEN 127 ELSE 0])

\* the ring positions asked for, on both sides of 0..11
LedPositions == (0 - MaxOver)..(11 + MaxOver)

InitLed ==
    /\ knob = BrightnessKnob
    /\ call = NoCall
    /\ MidiUnused
    /\ DrvUnused
    /\ SessionUnused

LedRingCall(outport, knob_id, position) ==
    /\ call' = [op |-> "set_led_ring", outport |-> outport, id |-> knob_id,
                position |-> position,
                r |-> set_led_ring(outport, knob_id, position)]
    /\ UNCHANGED <<knob, midiVars, loop, drvVars, mapperVars, sessionVars>>

ButtonLedCall(outport, button_id, state) ==
    /\ call' = [op |-> "set_button_led", outport |-> outport, id |-> button_id,
                state |-> state,
                r |-> set_button_led(outport, button_id, state)]
    /\ UNCHANGED <<knob, midiVars, loop, drvVars, mapperVars, sessionVars>>

NextLed ==
    \/ \E outport \in PortStates, knob_id \in {knob_brightness, knob_night_mode},
          position \in LedPositions : LedRingCall(outport, knob_id, position)
    \/ \E outport \in PortStates, button_id \in {button_local_dimming, button_hdr},
          state \in BOOLEAN : ButtonLedCall(outport, button_id, state)

SpecLed == InitLed /\ [][NextLed]_vars

ClosedPortRaises ==
    (call.op \in {"set_led_ring", "set_button_led"} /\ call.outport = "closed") =>
        call.r.sent = << >> /\ call.r.raised

====
